---- MODULE Spec2Model ----
(***************************************************************************)
(* A model of tools/export_skinned_mesh.py: the skin resolver, the mesh    *)
(* assembler, the mesh merge (build_skinned_mesh, build_merged_mesh) and   *)
(* the command surface (main) in front of them.                            *)
(*                                                                         *)
(* Conventions.  Python lists are sequences; Python indices are 0-based    *)
(* and are kept 0-based as VALUES (a bone index 0 is the first bone), so   *)
(* element i of a list s is At(s, i) = s[i + 1].  Object ids, names and    *)
(* coordinates are small integers; names are ordered as integers the way   *)
(* Python orders the strings they stand for.  A weight is an exact         *)
(* rational: an input weight w stands for w / WDen, an output weight is a  *)
(* record [n, d] standing for n / d.                                       *)
(***************************************************************************)
EXTENDS Integers, Sequences, FiniteSets, TLC

(***************************************************************************)
(* Bounds of the model.                                                    *)
(***************************************************************************)
\* clusters (bones) of the skin in the bone-hierarchy scenes
MaxBones == 3
\* influence pairs of the first cluster in the weight scenes
MaxInf == 3
\* influence pairs of the second cluster in the weight scenes
MaxInf2 == 2
\* entries of the polygon index stream in the assembly scenes
MaxStream == 4

\* an input weight w stands for w / WDen (9 is 0.9, 3 is 0.3)
WDen == 10

(***************************************************************************)
(* Generic helpers.                                                        *)
(***************************************************************************)
At(s, i) == s[i + 1]

Range(s) == {s[k] : k \in 1..Len(s)}

SeqsUpTo(S, n) == UNION {[1..k -> S] : k \in 0..n}

Min2(a, b) == IF a < b THEN a ELSE b

RECURSIVE SumSeq(_)
SumSeq(s) == IF s = <<>> THEN 0 ELSE Head(s) + SumSeq(Tail(s))

\* Python's s[i] for a list of length n: a negative i counts from the end
\* and anything outside -n..n-1 raises IndexError (modelled as "no value")
PyInRange(i, n) == i >= 0 - n /\ i < n
PyIndex(i, n) == IF i < 0 THEN i + n ELSE i


(***************************************************************************)
(* Object ids, names and values of the scenes.                             *)
(***************************************************************************)
\* dict.get() of a missing key, and an id-valued variable holding None
NoId == 0
\* 'bone_name' not in cluster
NoName == 0
\* the normal (0, 1, 0) and the UV (0, 0) given to a corner with no source
DefaultNormal == 0
DefaultUV == 0

GeoId(k) == 10 + k
SkinId(k) == 20 + k
ClusterId(k) == 30 + k
ModelId(k) == 40 + k
\* the Model node a mesh geometry hangs under
MeshModelId(k) == 50 + k

Conn(t, c, p) == [type |-> t, child |-> c, parent |-> p]

\* a geometry record as extract_geometry builds it; normals and uvs are the
\* lists of values (empty when the layer is absent)
Geo(id, positions, polygons, normals, nmap, nref, nidx, uvs, umap, uref, uidx) ==
    [id |-> id, positions |-> positions, polygons |-> polygons,
     normals |-> normals, normal_mapping |-> nmap, normal_ref |-> nref,
     normal_indices |-> nidx,
     uvs |-> uvs, uv_mapping |-> umap, uv_ref |-> uref, uv_indices |-> uidx]

PlainGeo(id, positions, polygons) ==
    Geo(id, positions, polygons, <<>>, "ByPolygonVertex", "Direct", <<>>,
        <<>>, "ByPolygonVertex", "Direct", <<>>)

\* a cluster record as extract_deformers builds it, with the two keys
\* build_skinned_mesh adds later still absent
Cluster(id, name, indices, weights) ==
    [id |-> id, name |-> name, indices |-> indices, weights |-> weights,
     bone_model_id |-> NoId, bone_name |-> NoName]

(***************************************************************************)
(* State: the locals of main, build_merged_mesh and build_skinned_mesh.    *)
(***************************************************************************)
VARIABLES
    pc,              \* the statement the run is at
    connections,     \* extract_connections(root)
    models,          \* extract_models(root): id -> [name]
    geometries,      \* extract_all_geometries(root)
    skin_deformers,  \* extract_deformers(root)[0], ids in encounter order
    clusters,        \* extract_deformers(root)[1]: id -> cluster record
    skin_id, skin_geo_id, target_geo,
    skin_clusters,   \* cluster ids, in bone order once sorted
    bone_ids,        \* model id -> bone index
    bone_parents,
    vertex_bones,    \* per control point, the (bone, weight) pairs kept
    final_vertices,  \* the vertex buffer as assembled (before the remap)
    final_indices,
    vertex_map,      \* the keys of vertex_map, in allocation order
    tri_indices,     \* tri_indices of every polygon of the target geometry
    sorted_order,
    result,          \* the mesh being returned
    returned,        \* "pending", "mesh", "none" (return None), "raised"
    error,           \* the exception that ended the run, "" when none did
    data,            \* the bytes of the input file, as cells
    offset,          \* the decoder's read offset
    stack,           \* the active _read_node_list calls, innermost last
    nodes,           \* the nodes decoded so far
    root_returned,   \* read_fbx_binary has returned a tree to main
    extracted,       \* main has handed the tree to build_merged_mesh
    written,         \* main has called write_skmesh, which opens the file
    output,          \* the records in the output file
    transform_links, \* per bone, the cluster's TransformLink matrix if any
    bind_poses,      \* per bone, the recorded pose of its model if any
    fbx_scale,       \* the detected scale factor
    bone_bind_poses, bone_inv_bind_poses

vars == <<pc, connections, models, geometries, skin_deformers, clusters,
          skin_id, skin_geo_id, target_geo, skin_clusters, bone_ids,
          bone_parents, vertex_bones, final_vertices, final_indices,
          vertex_map, tri_indices, sorted_order, result, returned, error,
          data, offset, stack, nodes, root_returned, extracted, written, output,
          transform_links, bind_poses, fbx_scale, bone_bind_poses,
          bone_inv_bind_poses>>

inputs == <<connections, models, geometries, skin_deformers>>

decoder == <<data, offset, stack, nodes, root_returned, extracted, written, output>>

poses == <<transform_links, bind_poses, fbx_scale, bone_bind_poses,
           bone_inv_bind_poses>>

locals == <<skin_id, skin_geo_id, target_geo, skin_clusters, bone_ids,
            bone_parents, vertex_bones, final_vertices, final_indices,
            vertex_map, tri_indices, sorted_order, result, returned>>


(***************************************************************************)
(* Skin resolver, lines 488-614.                                           *)
(***************************************************************************)
\* child_to_parent.get(id): the dict keeps the LAST record of each child
RECURSIVE child_to_parent(_, _)
child_to_parent(conns, id) ==
    IF conns = <<>> THEN NoId
    ELSE LET c == conns[Len(conns)]
         IN  IF c.child = id THEN c.parent
             ELSE child_to_parent(SubSeq(conns, 1, Len(conns) - 1), id)

\* the children of the records of conns that satisfy Pick, in record order
ChildrenWhere(conns, Pick(_)) ==
    LET sel == SelectSeq(conns, Pick)
    IN  [k \in 1..Len(sel) |-> sel[k].child]

\* the clusters connected under deformer sid, one entry per connection record
ClustersOf(conns, clus, sid) ==
    LET Pick(c) == c.parent = sid /\ c.child \in DOMAIN clus
    IN  ChildrenWhere(conns, Pick)

total_influences(conns, clus, sid) ==
    LET cs == ClustersOf(conns, clus, sid)
    IN  SumSeq([k \in 1..Len(cs) |-> Len(clus[cs[k]].indices)])

\* the loop of lines 502-516 over the deformers still to visit; best is
\* [count, skin_id, skin_geo_id]
RECURSIVE SelectSkinFrom(_, _, _, _)
SelectSkinFrom(sids, conns, clus, best) ==
    IF sids = <<>> THEN best
    ELSE LET sid == Head(sids)
             t   == total_influences(conns, clus, sid)
             nb  == IF t > best.count
                    THEN [count |-> t, skin_id |-> sid,
                          skin_geo_id |-> child_to_parent(conns, sid)]
                    ELSE best
         IN  SelectSkinFrom(Tail(sids), conns, clus, nb)

\* a selection that visits the deformers from the last to the first
SelectSkinLast(sids, conns, clus) ==
    SelectSkinFrom([k \in 1..Len(sids) |-> sids[Len(sids) + 1 - k]], conns, clus,
                   [count |-> 0, skin_id |-> NoId, skin_geo_id |-> NoId])

SelectSkin(sids, conns, clus) ==
    SelectSkinFrom(sids, conns, clus,
                   [count |-> 0, skin_id |-> NoId, skin_geo_id |-> NoId])

\* position (0-based) of the first geometry satisfying Pick, -1 if none
FirstGeo(geos, Pick(_)) ==
    LET hits == {k \in 0..(Len(geos) - 1) : Pick(At(geos, k))}
    IN  IF hits = {} THEN 0 - 1
        ELSE CHOOSE k \in hits : \A j \in hits : k <= j

\* the resolution with rule (a) and the fallback (d) only
FindTargetGeoDirect(geos, conns, sid, sgid) ==
    LET ById(g) == g.id = sgid
        a == FirstGeo(geos, ById)
    IN  IF a = 0 - 1 THEN (IF Len(geos) > 0 THEN 0 ELSE 0 - 1) ELSE a

\* lines 524-556: the four rules, tried in order; -1 is None
FindTargetGeo(geos, conns, sid, sgid) ==
    LET geoIds  == {geos[k].id : k \in 1..Len(geos)}
        ById(g) == g.id = sgid
        a == FirstGeo(geos, ById)
        ForModel(c) == c.parent = sgid /\ c.child \in geoIds
        geos_for_model == ChildrenWhere(conns, ForModel)
        ByFirstChild(g) == g.id = geos_for_model[1]
        b == IF a = 0 - 1 /\ geos_for_model # <<>>
             THEN FirstGeo(geos, ByFirstChild) ELSE a
        skin_parent == child_to_parent(conns, sid)
        SameParent(g) == /\ child_to_parent(conns, g.id) # NoId
                         /\ skin_parent # NoId
                         /\ child_to_parent(conns, g.id) = skin_parent
        c == IF b = 0 - 1 THEN FirstGeo(geos, SameParent) ELSE b
    IN  IF c = 0 - 1 THEN (IF Len(geos) > 0 THEN 0 ELSE 0 - 1) ELSE c

\* lines 573-583: the bone model of a cluster is the child of the first
\* record whose parent is the cluster and whose child is a model
BoneModelOf(conns, mods, cid) ==
    LET Pick(c) == c.parent = cid /\ c.child \in DOMAIN mods
        ms == ChildrenWhere(conns, Pick)
    IN  IF ms = <<>> THEN NoId ELSE ms[1]

NameClusters(conns, mods, clus, sc) ==
    [id \in DOMAIN clus |->
        IF id \in Range(sc)
        THEN LET m == BoneModelOf(conns, mods, id)
             IN  [clus[id] EXCEPT
                    !.bone_model_id = m,
                    !.bone_name = IF m # NoId THEN mods[m].name
                                  ELSE clus[id].name]
        ELSE clus[id]]

\* list.sort(key=bone_name): stable, ascending
RECURSIVE InsertByName(_, _, _)
InsertByName(sorted, cid, clus) ==
    IF sorted = <<>> THEN <<cid>>
    ELSE IF clus[cid].bone_name < clus[Head(sorted)].bone_name
         THEN <<cid>> \o sorted
         ELSE <<Head(sorted)>> \o InsertByName(Tail(sorted), cid, clus)

RECURSIVE SortByName(_, _)
SortByName(sc, clus) ==
    IF sc = <<>> THEN <<>>
    ELSE InsertByName(SortByName(SubSeq(sc, 1, Len(sc) - 1), clus),
                      sc[Len(sc)], clus)

\* lines 590-595: model id -> bone index, the last cluster of a model wins
BoneIds(sc, clus) ==
    LET ms == {clus[sc[k]].bone_model_id : k \in 1..Len(sc)} \ {NoId}
    IN  [m \in ms |->
            (CHOOSE k \in 1..Len(sc) :
                /\ clus[sc[k]].bone_model_id = m
                /\ \A j \in (k + 1)..Len(sc) : clus[sc[j]].bone_model_id # m) - 1]

\* lines 609-614: the first 'OO' record from the bone's model to a model
\* that is itself a bone
RECURSIVE ParentBoneFrom(_, _, _)
ParentBoneFrom(conns, bmid, bids) ==
    IF conns = <<>> THEN 0 - 1
    ELSE LET c == Head(conns)
         IN  IF c.child = bmid /\ c.type = "OO" /\ c.parent \in DOMAIN bids
             THEN bids[c.parent]
             ELSE ParentBoneFrom(Tail(conns), bmid, bids)

\* lines 599-614
BoneParents(conns, sc, clus, bids) ==
    [k \in 1..Len(sc) |->
        LET bmid == clus[sc[k]].bone_model_id
        IN  IF bmid = NoId THEN 0 - 1
            ELSE IF child_to_parent(conns, bmid) = NoId THEN 0 - 1
            ELSE ParentBoneFrom(conns, bmid, bids)]


(***************************************************************************)
(* Per-control-point bone influences, lines 663-683.                       *)
(***************************************************************************)
\* bones[:4]
MaxInfluences == 4

Rat(n, d) == [n |-> n, d |-> d]

\* zip(indices, weights) of every cluster in bone order, each pair tagged
\* with the index of its bone
RECURSIVE InfluencePairs(_, _, _)
InfluencePairs(sc, clus, k) ==
    IF k > Len(sc) THEN <<>>
    ELSE LET cl == clus[sc[k]]
             n  == Min2(Len(cl.indices), Len(cl.weights))
         IN  [j \in 1..n |-> [b |-> k - 1, vi |-> cl.indices[j], w |-> cl.weights[j]]]
             \o InfluencePairs(sc, clus, k + 1)

\* line 669: the pair is kept when vi < num_control_points
Scattered(pr, ncp) == pr.vi < ncp

\* vertex_bones[vi] of a kept pair raises IndexError when vi < -ncp
ScatterRaises(pairs, ncp) ==
    \E k \in 1..Len(pairs) : Scattered(pairs[k], ncp) /\ ~PyInRange(pairs[k].vi, ncp)

\* lines 664-670: the list of each control point, in append order
Scatter(pairs, ncp) ==
    [cp \in 1..ncp |->
        LET Mine(pr) == Scattered(pr, ncp) /\ PyIndex(pr.vi, ncp) = cp - 1
            mine == SelectSeq(pairs, Mine)
        IN  [j \in 1..Len(mine) |-> [b |-> mine[j].b, w |-> mine[j].w]]]

\* bones.sort(key=lambda x: -x[1]): stable, descending by weight
RECURSIVE InsertByWeight(_, _)
InsertByWeight(sorted, e) ==
    IF sorted = <<>> THEN <<e>>
    ELSE IF e.w > Head(sorted).w
         THEN <<e>> \o sorted
         ELSE <<Head(sorted)>> \o InsertByWeight(Tail(sorted), e)

RECURSIVE SortByWeight(_)
SortByWeight(bones) ==
    IF bones = <<>> THEN <<>>
    ELSE InsertByWeight(SortByWeight(SubSeq(bones, 1, Len(bones) - 1)),
                        bones[Len(bones)])

\* line 676
KeepTop(bones) == SubSeq(bones, 1, Min2(Len(bones), MaxInfluences))

\* lines 677-679: divided by the total only when the total is positive
Normalize(bones) ==
    LET total_w == SumSeq([j \in 1..Len(bones) |-> bones[j].w])
    IN  [j \in 1..Len(bones) |->
            [b |-> bones[j].b,
             w |-> IF total_w > 0 THEN Rat(bones[j].w, total_w)
                   ELSE Rat(bones[j].w, WDen)]]

\* lines 681-682
Pad(bones) ==
    bones \o [j \in 1..(MaxInfluences - Len(bones)) |-> [b |-> 0, w |-> Rat(0, 1)]]

\* lines 673-683 for one control point
LimitInfluences(bones) == Pad(Normalize(KeepTop(SortByWeight(bones))))

VertexBones(sc, clus, ncp) ==
    LET scattered == Scatter(InfluencePairs(sc, clus, 1), ncp)
    IN  [cp \in 1..ncp |-> LimitInfluences(scattered[cp])]


(***************************************************************************)
(* Mesh assembler, lines 685-767.                                          *)
(***************************************************************************)
Ok(v) == [ok |-> TRUE, v |-> v]
Raise == [ok |-> FALSE, v |-> 0]

\* list[i] as Python evaluates it
PyGet(list, i) ==
    IF PyInRange(i, Len(list)) THEN Ok(list[PyIndex(i, Len(list)) + 1]) ELSE Raise

RECURSIVE Flatten(_)
Flatten(polys) == IF polys = <<>> THEN <<>> ELSE Head(polys) \o Flatten(Tail(polys))

\* a source index that never goes through the index array
AsmSourceIndexDirect(values, mapping, ref, index_array, pvc, vi) ==
    IF values = <<>> THEN Ok(0)
    ELSE IF mapping = "ByVertex" \/ mapping = "ByVertice" THEN Ok(vi)
    ELSE Ok(pvc)

\* lines 708-717 (and 724-733): the source index of one attribute of the
\* corner at running position pvc that references control point vi
AsmSourceIndex(values, mapping, ref, index_array, pvc, vi) ==
    IF values = <<>> THEN Ok(0)
    ELSE IF mapping = "ByPolygonVertex"
         THEN IF ref = "IndexToDirect" /\ index_array # <<>>
              THEN PyGet(index_array, pvc)
              ELSE Ok(pvc)
    ELSE IF mapping = "ByVertex" \/ mapping = "ByVertice" THEN Ok(vi)
    ELSE Ok(pvc)

\* lines 718-721 (and 734-737): normals[ni] if ni < len(normals) else default
AttrValue(values, i, default) ==
    IF values = <<>> THEN Ok(default)
    ELSE IF i < Len(values) THEN PyGet(values, i)
    ELSE Ok(default)

\* a final vertex: pos names the control point whose position it carries
Vertex(geo, vi, normal, uv, bi, bw) ==
    [pos |-> <<geo.id, vi>>, normal |-> normal, uv |-> uv,
     bone_indices |-> bi, bone_weights |-> bw]

NoVertex == [pos |-> <<NoId, 0>>, normal |-> DefaultNormal, uv |-> DefaultUV,
             bone_indices |-> <<>>, bone_weights |-> <<>>]

\* lines 704-745 for one corner: its key and the vertex it would allocate
AsmCorner(geo, vb, pvc, vi) ==
    LET ni == AsmSourceIndex(geo.normals, geo.normal_mapping, geo.normal_ref,
                             geo.normal_indices, pvc, vi)
        nv == IF ni.ok THEN AttrValue(geo.normals, ni.v, DefaultNormal) ELSE Raise
        ui == AsmSourceIndex(geo.uvs, geo.uv_mapping, geo.uv_ref,
                             geo.uv_indices, pvc, vi)
        uv == IF ui.ok THEN AttrValue(geo.uvs, ui.v, DefaultUV) ELSE Raise
        bd == PyGet(vb, vi)
    IN  IF nv.ok /\ uv.ok /\ bd.ok
        THEN [ok |-> TRUE, key |-> <<vi, ni.v, ui.v>>,
              vert |-> Vertex(geo, vi, nv.v, uv.v,
                              [j \in 1..Len(bd.v) |-> bd.v[j].b],
                              [j \in 1..Len(bd.v) |-> bd.v[j].w])]
        ELSE [ok |-> FALSE, key |-> <<vi, 0, 0>>, vert |-> NoVertex]

AsmCorners(geo, vb) ==
    LET flat == Flatten(geo.polygons)
    IN  [k \in 1..Len(flat) |-> AsmCorner(geo, vb, k - 1, flat[k])]

\* the newest vertex, whatever the key
MapIndexNewest(keys, key, base) == Len(keys) - 1 + base

\* vertex_map[key] for a key the map holds; keys lists the map's keys in
\* allocation order and base is the index of the first of them
MapIndex(keys, key, base) ==
    (CHOOSE j \in 1..Len(keys) : keys[j] = key) - 1 + base

\* lines 745-761 (and 937-946) over the corners from position k on:
\* allocate a vertex for a key not yet in vertex_map, then record the
\* corner's vertex index
RECURSIVE Allocate(_, _, _, _)
Allocate(corners, k, acc, base) ==
    IF k > Len(corners) THEN acc
    ELSE LET c    == corners[k]
             new  == c.key \notin Range(acc.keys)
             keys == IF new THEN Append(acc.keys, c.key) ELSE acc.keys
             vs   == IF new THEN Append(acc.verts, c.vert) ELSE acc.verts
         IN  Allocate(corners, k + 1,
                      [keys |-> keys, verts |-> vs,
                       tri |-> Append(acc.tri, MapIndex(keys, c.key, base))],
                      base)

EmptyAlloc == [keys |-> <<>>, verts |-> <<>>, tri |-> <<>>]

\* a strip instead of a fan: (i - 1, i, i + 1)
FanAsStrip(tri, i) ==
    IF Len(tri) < 3 THEN <<>>
    ELSE [t \in 1..(3 * (Len(tri) - 2)) |-> tri[((t - 1) \div 3) + ((t - 1) % 3) + 1]]

\* lines 763-767 (and 948-951): the fan of one polygon's vertex indices
RECURSIVE Fan(_, _)
Fan(tri, i) ==
    IF i >= Len(tri) - 1 THEN <<>>
    ELSE <<At(tri, 0), At(tri, i), At(tri, i + 1)>>
         \o Fan(tri, i + 1)

\* the fans of all polygons; tri holds the vertex index of every corner in
\* running order and start is the running position of the first polygon
RECURSIVE FanAll(_, _, _)
FanAll(polys, tri, start) ==
    IF polys = <<>> THEN <<>>
    ELSE LET n == Len(Head(polys))
         IN  Fan(SubSeq(tri, start + 1, start + n), 1)
             \o FanAll(Tail(polys), tri, start + n)


(***************************************************************************)
(* Topological sort and re-indexing of the bones, lines 772-820.           *)
(***************************************************************************)
\* lines 786-789
IsRoot(bp, i) == At(bp, i) < 0 \/ At(bp, i) >= Len(bp)

\* lines 784-791: children[idx], in increasing bone index
RECURSIVE ChildrenOf(_, _, _)
ChildrenOf(bp, idx, i) ==
    IF i >= Len(bp) THEN <<>>
    ELSE (IF ~IsRoot(bp, i) /\ At(bp, i) = idx THEN <<i>> ELSE <<>>)
         \o ChildrenOf(bp, idx, i + 1)

RECURSIVE RootsFrom(_, _)
RootsFrom(bp, i) ==
    IF i >= Len(bp) THEN <<>>
    ELSE (IF IsRoot(bp, i) THEN <<i>> ELSE <<>>) \o RootsFrom(bp, i + 1)

\* lines 794-799: the queue loop
RECURSIVE Bfs(_, _, _)
Bfs(bp, queue, order) ==
    IF queue = <<>> THEN order
    ELSE Bfs(bp, Tail(queue) \o ChildrenOf(bp, Head(queue), 0),
             Append(order, Head(queue)))

\* the bones left in name order (no sort at all)
SortedOrderUnsorted(bp) == [k \in 1..Len(bp) |-> k - 1]

SortedOrder(bp) == Bfs(bp, RootsFrom(bp, 0), <<>>)

\* the count check left out
TopoAssertSkipped(order, num_bones) == TRUE

\* line 801: assert len(sorted_order) == num_bones
TopoAssertHolds(order, num_bones) == Len(order) = num_bones

\* lines 804-806: old_to_new starts as [0] * num_bones
OldToNew(order, num_bones) ==
    [old \in 0..(num_bones - 1) |->
        IF old \in Range(order)
        THEN (CHOOSE j \in 1..Len(order) : order[j] = old) - 1
        ELSE 0]

\* line 813
RemapParent(o2n, old_parent, num_bones) ==
    IF 0 <= old_parent /\ old_parent < num_bones THEN o2n[old_parent] ELSE 0 - 1

\* lines 809-814
SortedBones(order, names, bp) ==
    LET o2n == OldToNew(order, Len(bp))
    IN  [j \in 1..Len(order) |->
            [name |-> At(names, order[j]),
             parent |-> RemapParent(o2n, At(bp, order[j]), Len(bp))]]

\* the vertex slot left on the old numbering
RemapIndexStale(o2n, bi, num_bones) == bi

\* line 819
RemapIndex(o2n, bi, num_bones) == IF bi < num_bones THEN o2n[bi] ELSE 0

\* lines 817-820
RemapVertices(verts, o2n, num_bones) ==
    [v \in 1..Len(verts) |->
        [verts[v] EXCEPT !.bone_indices =
            [j \in 1..Len(verts[v].bone_indices) |->
                RemapIndex(o2n, verts[v].bone_indices[j], num_bones)]]]

(***************************************************************************)
(* Mesh merge, lines 853-956.                                              *)
(***************************************************************************)
\* the names that contain 'forearm.L' and 'forearm.R'
ForearmLName == 2
ForearmRName == 3

\* lines 854-860
NonSkinned(geos, conns, sids) ==
    LET skinned_geo_ids ==
            {conns[k].parent : k \in {j \in 1..Len(conns) : conns[j].child \in Range(sids)}}
        Keep(g) == g.id \notin skinned_geo_ids
    IN  SelectSeq(geos, Keep)

\* the -1 of "no such bone" never replaced by 0
ForearmIndexNoDefault(bones, name) ==
    LET hits == {i \in 0..(Len(bones) - 1) : At(bones, i).name = name}
    IN  IF hits = {} THEN 0 - 1 ELSE CHOOSE i \in hits : \A j \in hits : j <= i

\* lines 869-880: the last bone carrying the name, 0 when none does
ForearmIndex(bones, name) ==
    LET hits == {i \in 0..(Len(bones) - 1) : At(bones, i).name = name}
    IN  IF hits = {} THEN 0 ELSE CHOOSE i \in hits : \A j \in hits : j <= i

\* lines 910-918 (and 921-929)
MergeSourceIndex(values, mapping, ref, index_array, pvc, vi) ==
    IF values = <<>> THEN Ok(0)
    ELSE IF mapping = "ByPolygonVertex"
         THEN IF ref = "IndexToDirect" /\ index_array # <<>>
              THEN PyGet(index_array, pvc)
              ELSE Ok(pvc)
    ELSE Ok(vi)

\* a corner bound by the sign of its control point index instead of its
\* first coordinate
MergeCornerByIndex(geo, l_idx, r_idx, pvc, vi) ==
    LET pos == PyGet(geo.positions, vi)
    IN  IF pos.ok
        THEN [ok |-> TRUE, key |-> <<vi, 0, 0>>,
              vert |-> Vertex(geo, vi, DefaultNormal, DefaultUV,
                              <<IF vi >= 0 THEN l_idx ELSE r_idx, 0, 0, 0>>,
                              <<Rat(1, 1), Rat(0, 1), Rat(0, 1), Rat(0, 1)>>)]
        ELSE [ok |-> FALSE, key |-> <<vi, 0, 0>>, vert |-> NoVertex]

\* lines 905-944 for one corner
MergeCorner(geo, l_idx, r_idx, pvc, vi) ==
    LET pos == PyGet(geo.positions, vi)
        ni == MergeSourceIndex(geo.normals, geo.normal_mapping, geo.normal_ref,
                               geo.normal_indices, pvc, vi)
        nv == IF ni.ok THEN AttrValue(geo.normals, ni.v, DefaultNormal) ELSE Raise
        ui == MergeSourceIndex(geo.uvs, geo.uv_mapping, geo.uv_ref,
                               geo.uv_indices, pvc, vi)
        uv == IF ui.ok THEN AttrValue(geo.uvs, ui.v, DefaultUV) ELSE Raise
    IN  IF pos.ok /\ nv.ok /\ uv.ok
        THEN [ok |-> TRUE, key |-> <<vi, ni.v, ui.v>>,
              vert |-> Vertex(geo, vi, nv.v, uv.v,
                              <<IF pos.v >= 0 THEN l_idx ELSE r_idx, 0, 0, 0>>,
                              <<Rat(1, 1), Rat(0, 1), Rat(0, 1), Rat(0, 1)>>)]
        ELSE [ok |-> FALSE, key |-> <<vi, 0, 0>>, vert |-> NoVertex]

MergeCorners(geo, l_idx, r_idx) ==
    LET flat == Flatten(geo.polygons)
    IN  [k \in 1..Len(flat) |-> MergeCorner(geo, l_idx, r_idx, k - 1, flat[k])]

AllOk(corners) == \A k \in 1..Len(corners) : corners[k].ok

\* a merge that numbers the vertices of every geometry from the count the
\* skinned mesh had
RECURSIVE MergeAllFixedOffset(_, _, _, _)
MergeAllFixedOffset(geos, mesh, l_idx, r_idx) ==
    IF geos = <<>> \/ ~mesh.ok THEN mesh
    ELSE LET geo == Head(geos)
             corners == MergeCorners(geo, l_idx, r_idx)
             a == Allocate(corners, 1, EmptyAlloc, Len(result.vertices))
         IN  IF ~AllOk(corners) THEN [mesh EXCEPT !.ok = FALSE]
             ELSE MergeAllFixedOffset(Tail(geos),
                           [mesh EXCEPT
                              !.vertices = @ \o a.verts,
                              !.indices = @ \o FanAll(geo.polygons, a.tri, 0)],
                           l_idx, r_idx)

\* lines 887-955 over the geometries still to merge; mesh.ok turns FALSE
\* when a corner raises
RECURSIVE MergeAll(_, _, _, _)
MergeAll(geos, mesh, l_idx, r_idx) ==
    IF geos = <<>> \/ ~mesh.ok THEN mesh
    ELSE LET geo == Head(geos)
             corners == MergeCorners(geo, l_idx, r_idx)
             a == Allocate(corners, 1, EmptyAlloc, Len(mesh.vertices))
         IN  IF ~AllOk(corners) THEN [mesh EXCEPT !.ok = FALSE]
             ELSE MergeAll(Tail(geos),
                           [mesh EXCEPT
                              !.vertices = @ \o a.verts,
                              !.indices = @ \o FanAll(geo.polygons, a.tri, 0)],
                           l_idx, r_idx)


(***************************************************************************)
(* Scene graph extractor: polygon loops, lines 194-205.                    *)
(***************************************************************************)
\* a loop recovery that keeps only the loops closed by a negative entry
RECURSIVE ExtractClosedPolygons(_, _, _)
ExtractClosedPolygons(raw_indices, current_poly, polygons) ==
    IF raw_indices = <<>> THEN polygons
    ELSE LET idx == Head(raw_indices)
         IN  IF idx < 0
             THEN ExtractClosedPolygons(Tail(raw_indices), <<>>,
                      Append(polygons, Append(current_poly, 0 - idx - 1)))
             ELSE ExtractClosedPolygons(Tail(raw_indices), Append(current_poly, idx),
                                        polygons)

RECURSIVE ExtractPolygons(_, _, _)
ExtractPolygons(raw_indices, current_poly, polygons) ==
    IF raw_indices = <<>>
    THEN IF current_poly # <<>> THEN Append(polygons, current_poly) ELSE polygons
    ELSE LET idx == Head(raw_indices)
         IN  IF idx < 0
             THEN ExtractPolygons(Tail(raw_indices), <<>>,
                                  Append(polygons, Append(current_poly, 0 - idx - 1)))
             ELSE ExtractPolygons(Tail(raw_indices), Append(current_poly, idx), polygons)

(***************************************************************************)
(* The scenes the runs start from.  Every scene has one skin deformer      *)
(* under the target geometry GeoId(1) and a second, non-skinned geometry   *)
(* GeoId(2); opt[k] says how cluster k is wired: -1 it has no bone model,  *)
(* 0 its bone model has no parent record, j its bone model is connected    *)
(* under the bone model of cluster j.                                      *)
(***************************************************************************)
Permutations1(n) == {f \in [1..n -> 1..n] : \A a, b \in 1..n : f[a] = f[b] => a = b}

RECURSIVE ConcatAll(_)
ConcatAll(ss) == IF ss = <<>> THEN <<>> ELSE Head(ss) \o ConcatAll(Tail(ss))

SceneConnections(n, opt) ==
    <<Conn("OO", GeoId(1), MeshModelId(1)), Conn("OO", GeoId(2), MeshModelId(2)),
      Conn("OO", SkinId(1), GeoId(1))>>
    \o [k \in 1..n |-> Conn("OO", ClusterId(k), SkinId(1))]
    \o ConcatAll([k \in 1..n |->
          IF opt[k] >= 0 THEN <<Conn("OO", ModelId(k), ClusterId(k))>> ELSE <<>>])
    \o ConcatAll([k \in 1..n |->
          IF opt[k] >= 1 THEN <<Conn("OO", ModelId(k), ModelId(opt[k]))>> ELSE <<>>])

SceneModels(n, opt, names) ==
    [m \in {ModelId(k) : k \in {j \in 1..n : opt[j] >= 0}}
           \cup {MeshModelId(1), MeshModelId(2)} |->
        [name |-> IF m \in {MeshModelId(1), MeshModelId(2)} THEN 1
                  ELSE names[m - ModelId(0)]]]

\* the non-skinned geometry: one triangle, a control point on each side of
\* the origin
Sleeve == PlainGeo(GeoId(2), <<1, 0 - 1, 0>>, <<<<0, 1, 2>>>>)

InitLocals ==
    /\ skin_id = NoId /\ skin_geo_id = NoId /\ target_geo = 0 - 1
    /\ skin_clusters = <<>> /\ bone_ids = <<>> /\ bone_parents = <<>>
    /\ vertex_bones = <<>> /\ final_vertices = <<>> /\ final_indices = <<>>
    /\ vertex_map = <<>> /\ tri_indices = <<>>
    /\ sorted_order = <<>>
    /\ result = [vertices |-> <<>>, indices |-> <<>>, bones |-> <<>>]
    /\ returned = "pending"
    /\ error = ""
    /\ output = <<>>

\* no bone matrices: line 629 starts fbx_scale at 1.0
NoPoses ==
    /\ transform_links = <<>> /\ bind_poses = <<>> /\ fbx_scale = 1
    /\ bone_bind_poses = <<>> /\ bone_inv_bind_poses = <<>>

\* the tree has been decoded and main is at line 1049
InitDecoded ==
    /\ pc = "select"
    /\ data = <<>> /\ offset = 0 /\ stack = <<>> /\ nodes = <<>>
    /\ root_returned = TRUE /\ extracted = TRUE /\ written = FALSE

\* bone-hierarchy scenes: MaxBones clusters with distinct names in any
\* discovery order and any wiring; cluster k weights control point k - 1
InitBones ==
    \E names \in Permutations1(MaxBones), opt \in [1..MaxBones -> (0 - 1)..MaxBones] :
        /\ connections = SceneConnections(MaxBones, opt)
        /\ models = SceneModels(MaxBones, opt, names)
        /\ skin_deformers = <<SkinId(1)>>
        /\ clusters = [c \in {ClusterId(k) : k \in 1..MaxBones} |->
                          Cluster(c, names[c - ClusterId(0)],
                                  <<c - ClusterId(1)>>, <<WDen>>)]
        /\ geometries =
              <<PlainGeo(GeoId(1), [k \in 1..MaxBones |-> k],
                         <<[k \in 1..MaxBones |-> k - 1]>>),
                Sleeve>>


\* the scene of n clusters named 1..n in discovery order, wired by opt,
\* with the given influence lists and target geometry
SceneWith(n, opt, indices, weights, geo) ==
    /\ connections = SceneConnections(n, opt)
    /\ models = SceneModels(n, opt, [k \in 1..n |-> k])
    /\ skin_deformers = <<SkinId(1)>>
    /\ clusters = [c \in {ClusterId(k) : k \in 1..n} |->
                      Cluster(c, c - ClusterId(0),
                              indices[c - ClusterId(0)], weights[c - ClusterId(0)])]
    /\ geometries = <<geo, Sleeve>>

\* input weights, in units of 1 / WDen
WVals == {0 - 3, 0, 3, 9}
\* control-point indices of the weight scenes, whose target has 2 control
\* points: -3 is below -len, -1 counts from the end, 2 is past the end
IdxVals == {0 - 3, 0 - 1, 0, 1, 2}

WeightGeo == PlainGeo(GeoId(1), <<1, 2>>, <<<<0, 1, 0>>>>)

\* two bones, both roots or the first (by name) a child of the second
WeightWirings == {<<0, 0>>, <<2, 0>>}

\* weight scenes: up to MaxInf and MaxInf2 influences of any weight, all on
\* control point 0
InitWeights ==
    \E opt \in WeightWirings,
       w1 \in SeqsUpTo(WVals, MaxInf), w2 \in SeqsUpTo(WVals, MaxInf2) :
        SceneWith(2, opt,
                  <<[k \in 1..Len(w1) |-> 0], [k \in 1..Len(w2) |-> 0]>>,
                  <<w1, w2>>, WeightGeo)

\* index scenes: any control-point indices, weight lists shorter or longer
\* than the index list
InitIndices ==
    \E opt \in WeightWirings,
       i1 \in SeqsUpTo(IdxVals, 2), w1 \in {<<9>>, <<9, 3>>} :
        SceneWith(2, opt, <<i1, <<0>>>>, <<w1, <<3>>>>, WeightGeo)

\* one layer element (normals or UVs) of a geometry
Attr(values, mapping, ref, index_array) ==
    [values |-> values, mapping |-> mapping, ref |-> ref, index_array |-> index_array]

AttrAbsent == Attr(<<>>, "ByPolygonVertex", "Direct", <<>>)

\* the layers tried on a geometry of at most len corners
AttrConfigs(len) ==
    {AttrAbsent,
     Attr([k \in 1..len |-> k], "ByPolygonVertex", "Direct", <<>>),
     Attr(<<1, 2>>, "ByPolygonVertex", "IndexToDirect",
          [k \in 1..len |-> (k - 1) % 2]),
     Attr(<<1, 2>>, "ByPolygonVertex", "IndexToDirect", <<0, 0 - 1, 0 - 3>>),
     Attr(<<1, 2, 3>>, "ByVertex", "Direct", <<>>),
     Attr(<<1, 2>>, "AllSame", "Direct", <<>>)}

AsmGeo(positions, stream, na, ua) ==
    Geo(GeoId(1), positions, ExtractPolygons(stream, <<>>, <<>>),
        na.values, na.mapping, na.ref, na.index_array,
        ua.values, ua.mapping, ua.ref, ua.index_array)

\* entries of the polygon index stream over 3 control points
StreamVals == (0 - 3)..2

\* assembly scenes: any polygon index stream, any normal layer
InitStreams ==
    \E stream \in SeqsUpTo(StreamVals, MaxStream), na \in AttrConfigs(MaxStream) :
        SceneWith(1, <<0>>, <<<<0>>>>, <<<<WDen>>>>,
                  AsmGeo(<<1, 2, 3>>, stream, na, AttrAbsent))

\* a quad and a triangle that share control points (Scenario A's quad), and
\* a loop that names a control point the geometry does not have
FixedStreams == {<<0, 1, 2, 0 - 4, 0, 2, 0 - 4>>, <<0, 1, 0 - 6>>}

\* layer scenes: any pair of normal and UV layers
InitLayers ==
    \E stream \in FixedStreams :
    \E na \in AttrConfigs(Len(stream)), ua \in AttrConfigs(Len(stream)) :
        SceneWith(1, <<0>>, <<<<0>>>>, <<<<WDen>>>>,
                  AsmGeo(<<1, 2, 3, 4>>, stream, na, ua))

(***************************************************************************)
(* The run: build_merged_mesh calling build_skinned_mesh, one action per   *)
(* stage of the code.                                                      *)
(***************************************************************************)
\* the run ends: "none" is return None, "raised" an uncaught exception
Finish(how, exc) == pc' = "done" /\ returned' = how /\ error' = exc

\* lines 497-522
SelectSkinStep ==
    /\ pc = "select"
    /\ LET best == SelectSkin(skin_deformers, connections, clusters)
       IN  IF best.skin_id = NoId
           THEN Finish("none", "") /\ UNCHANGED <<skin_id, skin_geo_id>>
           ELSE /\ skin_id' = best.skin_id
                /\ skin_geo_id' = best.skin_geo_id
                /\ pc' = "target" /\ UNCHANGED <<returned, error>>
    /\ UNCHANGED <<inputs, clusters, target_geo, skin_clusters, bone_ids,
                   bone_parents, vertex_bones, final_vertices, final_indices,
                   vertex_map, tri_indices, sorted_order, result, decoder, poses>>

\* lines 524-562
FindGeoStep ==
    /\ pc = "target"
    /\ LET t == FindTargetGeo(geometries, connections, skin_id, skin_geo_id)
       IN  /\ target_geo' = t
           /\ IF t = 0 - 1 THEN Finish("none", "")
              ELSE pc' = "collect" /\ UNCHANGED <<returned, error>>
    /\ UNCHANGED <<inputs, clusters, skin_id, skin_geo_id, skin_clusters, bone_ids,
                   bone_parents, vertex_bones, final_vertices, final_indices,
                   vertex_map, tri_indices, sorted_order, result, decoder, poses>>

\* lines 564-596
CollectStep ==
    /\ pc = "collect"
    /\ LET sc    == ClustersOf(connections, clusters, skin_id)
           named == NameClusters(connections, models, clusters, sc)
           srt   == SortByName(sc, named)
       IN  /\ clusters' = named
           /\ skin_clusters' = srt
           /\ bone_ids' = BoneIds(srt, named)
    /\ pc' = "hierarchy"
    /\ UNCHANGED <<inputs, skin_id, skin_geo_id, target_geo,
                   bone_parents, vertex_bones, final_vertices, final_indices,
                   vertex_map, tri_indices, sorted_order, result, returned, error,
                   decoder, poses>>

\* lines 598-614
HierarchyStep ==
    /\ pc = "hierarchy"
    /\ bone_parents' = BoneParents(connections, skin_clusters, clusters, bone_ids)
    /\ pc' = "weights"
    /\ UNCHANGED <<inputs, clusters, skin_id, skin_geo_id, target_geo, skin_clusters,
                   bone_ids, vertex_bones, final_vertices, final_indices,
                   vertex_map, tri_indices, sorted_order, result, returned, error,
                   decoder, poses>>

\* lines 663-683
WeightsStep ==
    /\ pc = "weights"
    /\ LET ncp == Len(At(geometries, target_geo).positions)
       IN  IF ScatterRaises(InfluencePairs(skin_clusters, clusters, 1), ncp)
           THEN Finish("raised", "IndexError") /\ UNCHANGED vertex_bones
           ELSE /\ vertex_bones' = VertexBones(skin_clusters, clusters, ncp)
                /\ pc' = "assemble" /\ UNCHANGED <<returned, error>>
    /\ UNCHANGED <<inputs, clusters, skin_id, skin_geo_id, target_geo, skin_clusters,
                   bone_ids, bone_parents, final_vertices, final_indices,
                   vertex_map, tri_indices, sorted_order, result, decoder, poses>>

\* the slices of tri, one per polygon
RECURSIVE SplitByPolygon(_, _, _)
SplitByPolygon(polys, tri, start) ==
    IF polys = <<>> THEN <<>>
    ELSE <<SubSeq(tri, start + 1, start + Len(Head(polys)))>>
         \o SplitByPolygon(Tail(polys), tri, start + Len(Head(polys)))

\* lines 685-767
AssembleStep ==
    /\ pc = "assemble"
    /\ LET geo     == At(geometries, target_geo)
           corners == AsmCorners(geo, vertex_bones)
           a       == Allocate(corners, 1, EmptyAlloc, 0)
       IN  IF ~AllOk(corners)
           THEN /\ Finish("raised", "IndexError")
                /\ UNCHANGED <<final_vertices, final_indices, vertex_map, tri_indices>>
           ELSE /\ final_vertices' = a.verts
                /\ vertex_map' = a.keys
                /\ tri_indices' = SplitByPolygon(geo.polygons, a.tri, 0)
                /\ final_indices' = FanAll(geo.polygons, a.tri, 0)
                /\ pc' = "toposort" /\ UNCHANGED <<returned, error>>
    /\ UNCHANGED <<inputs, clusters, skin_id, skin_geo_id, target_geo, skin_clusters,
                   bone_ids, bone_parents, vertex_bones, sorted_order, result,
                   decoder, poses>>

bone_names == [k \in 1..Len(skin_clusters) |-> clusters[skin_clusters[k]].bone_name]

\* lines 772-831: the assert of line 801 raises AssertionError
TopoSortStep ==
    /\ pc = "toposort"
    /\ LET order == SortedOrder(bone_parents)
           n     == Len(skin_clusters)
       IN  /\ sorted_order' = order
           /\ IF ~TopoAssertHolds(order, n)
              THEN Finish("raised", "AssertionError") /\ UNCHANGED result
              ELSE /\ result' =
                        [vertices |-> RemapVertices(final_vertices, OldToNew(order, n), n),
                         indices |-> final_indices,
                         bones |-> SortedBones(order, bone_names, bone_parents)]
                   /\ pc' = "merge" /\ UNCHANGED <<returned, error>>
    /\ UNCHANGED <<inputs, clusters, skin_id, skin_geo_id, target_geo, skin_clusters,
                   bone_ids, bone_parents, vertex_bones, final_vertices, final_indices,
                   vertex_map, tri_indices, decoder, poses>>

\* lines 847-959
MergeStep ==
    /\ pc = "merge"
    /\ LET non_skinned == NonSkinned(geometries, connections, skin_deformers)
           merged == MergeAll(non_skinned,
                              [vertices |-> result.vertices, indices |-> result.indices,
                               bones |-> result.bones, ok |-> TRUE],
                              ForearmIndex(result.bones, ForearmLName),
                              ForearmIndex(result.bones, ForearmRName))
       IN  IF merged.ok
           THEN /\ result' = [vertices |-> merged.vertices, indices |-> merged.indices,
                              bones |-> merged.bones]
                /\ Finish("mesh", "")
           ELSE Finish("raised", "IndexError") /\ UNCHANGED result
    /\ UNCHANGED <<inputs, clusters, skin_id, skin_geo_id, target_geo, skin_clusters,
                   bone_ids, bone_parents, vertex_bones, final_vertices, final_indices,
                   vertex_map, tri_indices, sorted_order, decoder, poses>>

Init ==
    /\ InitLocals /\ InitDecoded /\ NoPoses
    /\ \/ InitBones
       \/ InitWeights
       \/ InitIndices
       \/ InitStreams
       \/ InitLayers

Next ==
    \/ SelectSkinStep
    \/ FindGeoStep
    \/ CollectStep
    \/ HierarchyStep
    \/ WeightsStep
    \/ AssembleStep
    \/ TopoSortStep
    \/ MergeStep

Spec == Init /\ [][Next]_vars

(***************************************************************************)
(* Resolver scenes: several geometries and several skin deformers, wired   *)
(* in every way the resolution rules of lines 497-559 distinguish.         *)
(***************************************************************************)
\* geometries of a target scene
MaxGeos == 2

\* a geometry of three control points and one triangle
TargetGeo(k) == PlainGeo(GeoId(k), <<1, 2, 3>>, <<<<0, 1, 2>>>>)

\* the geometry lists: any geometries, each once, in any order
GeoLists ==
    {s \in SeqsUpTo(1..MaxGeos, MaxGeos) : \A a, b \in 1..Len(s) : s[a] = s[b] => a = b}

\* the parents one geometry is connected to, in record order
GeoParentLists ==
    {<<>>, <<MeshModelId(1)>>, <<MeshModelId(2)>>,
     <<MeshModelId(1), MeshModelId(2)>>, <<MeshModelId(2), MeshModelId(1)>>}

\* the parents the deformer is connected to, in record order: a geometry,
\* a model, none, or two of them
SkinParentLists ==
    {<<>>, <<GeoId(1)>>, <<GeoId(2)>>, <<MeshModelId(1)>>, <<MeshModelId(2)>>,
     <<GeoId(1), MeshModelId(1)>>, <<MeshModelId(1), GeoId(2)>>}

\* one deformer with one cluster of one influence; geometry k connected to
\* the parents gp[k], the deformer to the parents sp
TargetConnections(gp, sp) ==
    ConcatAll([k \in 1..MaxGeos |->
        [j \in 1..Len(gp[k]) |-> Conn("OO", GeoId(k), gp[k][j])]])
    \o [j \in 1..Len(sp) |-> Conn("OO", SkinId(1), sp[j])]
    \o <<Conn("OO", ClusterId(1), SkinId(1)), Conn("OO", ModelId(1), ClusterId(1))>>

InitTargets ==
    \E gl \in GeoLists, gp \in [1..MaxGeos -> GeoParentLists], sp \in SkinParentLists :
        /\ connections = TargetConnections(gp, sp)
        /\ models = SceneModels(1, <<0>>, <<1>>)
        /\ skin_deformers = <<SkinId(1)>>
        /\ clusters = [c \in {ClusterId(1)} |-> Cluster(c, 1, <<0>>, <<WDen>>)]
        /\ geometries = [k \in 1..Len(gl) |-> TargetGeo(gl[k])]


(***************************************************************************)
(* The binary container decoder and the command surface.                   *)
(*                                                                         *)
(* The input buffer is a sequence of cells, one cell per field the code    *)
(* reads in one piece: a tag byte, a length byte, a 32-bit word.  A        *)
(* 64-bit header field is two cells, low word first, and so is an 8-byte   *)
(* scalar or array element.  Offsets are cell offsets, absolute in the     *)
(* buffer as end_offset is in the file.                                    *)
(***************************************************************************)
\* siblings decoded into one list before the model stops following a file
MaxNodes == 3
\* nested _read_node_list calls the interpreter allows before RecursionError
\* (sys.getrecursionlimit() in the program, scaled down)
RecursionLimit == 4

\* the cell that stands for the 21-byte signature of line 46
MagicOk == 1
\* version threshold of the 64-bit record headers
Version64 == 7500
\* cells before the first node record: the signature and the version
HeaderSize == 2
\* weight of the high cell of a two-cell field
Radix == 65536
\* first cell of a well-formed compressed stream
ZHead == 120

\* property type tags, as their character codes
ScalarTags == {67, 89, 73, 76, 70, 68}       \* C Y I L F D
BlobTags == {83, 82}                         \* S R
ArrayTags == {102, 100, 105, 108, 98}        \* f d i l b

\* cells of one value of the type: 8-byte values (L, D, d, l) take two
ElemSize(type_code) == IF type_code \in {76, 68, 100, 108} THEN 2 ELSE 1

\* buf[a:b] for 0 <= a: a slice never raises, it comes back short
Slice(buf, a, b) ==
    IF a >= Len(buf) \/ b <= a THEN <<>> ELSE SubSeq(buf, a + 1, Min2(b, Len(buf)))

Zeros(n) == [k \in 1..n |-> 0]

\* struct.unpack_from reads n cells at off, or raises struct.error
CanUnpack(buf, off, n) == off + n <= Len(buf)

\* the value of a field of w cells at off
Field(buf, off, w) ==
    IF w = 1 THEN At(buf, off) ELSE At(buf, off) + Radix * At(buf, off + 1)

\* the outcome of a read: a value and the offset after it, or an exception
Failed(exc) == [ok |-> FALSE, exc |-> exc]
Read(v, off) == [ok |-> TRUE, value |-> v, offset |-> off]

\* zlib.decompress: a stream is its head, the length of its content and
\* the content; cells after the stream are ignored, a bad head or a
\* truncated stream raises zlib.error
Decompress(stream) ==
    IF Len(stream) >= 2 /\ stream[1] = ZHead /\ Len(stream) >= 2 + stream[2]
    THEN [ok |-> TRUE, raw |-> SubSeq(stream, 3, 2 + stream[2])]
    ELSE [ok |-> FALSE, raw |-> <<>>]

\* struct.unpack of array_len values from raw[:array_len * elem_size]
Unpack(raw, array_len, elem_size, next) ==
    IF Len(raw) >= array_len * elem_size
    THEN Read([k \in 1..array_len |-> Field(raw, (k - 1) * elem_size, elem_size)], next)
    ELSE Failed("struct.error")

\* lines 131-149
read_array_property(buf, off, type_code) ==
    IF ~CanUnpack(buf, off, 3) THEN Failed("struct.error")
    ELSE LET array_len == At(buf, off)
             encoding == At(buf, off + 1)
             compressed_len == At(buf, off + 2)
             start == off + 3
             elem_size == ElemSize(type_code)
         IN  IF encoding = 0
             THEN LET total_size == array_len * elem_size
                  IN  Unpack(Slice(buf, start, start + total_size), array_len,
                             elem_size, start + total_size)
             ELSE IF encoding = 1
             THEN LET z == Decompress(Slice(buf, start, start + compressed_len))
                  IN  IF z.ok
                      THEN Unpack(z.raw, array_len, elem_size, start + compressed_len)
                      ELSE Failed("zlib.error")
             ELSE Failed("ValueError")

\* a reader that skips a property whose tag it does not know
read_property_lenient(buf, off) ==
    IF off >= Len(buf) THEN Failed("IndexError")
    ELSE LET type_code == At(buf, off)
             o == off + 1
         IN  IF type_code = 67
             THEN IF o >= Len(buf) THEN Failed("IndexError")
                  ELSE Read(IF At(buf, o) # 0 THEN 1 ELSE 0, o + 1)
             ELSE IF type_code \in ScalarTags
             THEN IF CanUnpack(buf, o, ElemSize(type_code))
                  THEN Read(Field(buf, o, ElemSize(type_code)), o + ElemSize(type_code))
                  ELSE Failed("struct.error")
             ELSE IF type_code \in BlobTags
             THEN IF CanUnpack(buf, o, 1)
                  THEN LET length == At(buf, o)
                       IN  Read(Slice(buf, o + 1, o + 1 + length), o + 1 + length)
                  ELSE Failed("struct.error")
             ELSE IF type_code \in ArrayTags
             THEN read_array_property(buf, o, type_code)
             ELSE Read(0, o)

\* lines 101-128
read_property(buf, off) ==
    IF off >= Len(buf) THEN Failed("IndexError")
    ELSE LET type_code == At(buf, off)
             o == off + 1
         IN  IF type_code = 67
             THEN IF o >= Len(buf) THEN Failed("IndexError")
                  ELSE Read(IF At(buf, o) # 0 THEN 1 ELSE 0, o + 1)
             ELSE IF type_code \in ScalarTags
             THEN IF CanUnpack(buf, o, ElemSize(type_code))
                  THEN Read(Field(buf, o, ElemSize(type_code)), o + ElemSize(type_code))
                  ELSE Failed("struct.error")
             ELSE IF type_code \in BlobTags
             THEN IF CanUnpack(buf, o, 1)
                  THEN LET length == At(buf, o)
                       IN  Read(Slice(buf, o + 1, o + 1 + length), o + 1 + length)
                  ELSE Failed("struct.error")
             ELSE IF type_code \in ArrayTags
             THEN read_array_property(buf, o, type_code)
             ELSE Failed("ValueError")

\* line 50
use_64bit == At(data, 1) >= Version64

\* cells of one header field
HeaderWidth == IF use_64bit THEN 2 ELSE 1

\* line 60: three header fields and the name length
null_size == 3 * HeaderWidth + 1

\* an active _read_node_list call: its bound, the list it is building and
\* the node _read_node is in the middle of
NoNode == [start |-> 0, end_offset |-> 0, name |-> <<>>, properties |-> <<>>,
           props_left |-> 0]

Frame(end) == [end_offset |-> end, nodes |-> <<>>, node |-> NoNode]

\* line 97
FBXNode(node, children) ==
    [name |-> node.name, properties |-> node.properties, children |-> children,
     start |-> node.start, end_offset |-> node.end_offset]

Top == stack[Len(stack)]

mesh_state == <<inputs, clusters, skin_id, skin_geo_id, target_geo, skin_clusters,
                bone_ids, bone_parents, vertex_bones, final_vertices,
                final_indices, vertex_map, tri_indices, sorted_order, result,
                poses>>

\* an exception leaves main: the process ends with a traceback
Crash(exc) == pc' = "crashed" /\ error' = exc

\* lines 41-54: the signature, the version, the call of the top-level list
ReadHeaderStep ==
    /\ pc = "open"
    /\ IF Slice(data, 0, 1) # <<MagicOk>>
       THEN Crash("ValueError") /\ UNCHANGED <<offset, stack>>
       ELSE IF ~CanUnpack(data, 1, 1)
       THEN Crash("struct.error") /\ UNCHANGED <<offset, stack>>
       ELSE /\ offset' = HeaderSize
            /\ stack' = <<Frame(Len(data))>>
            /\ pc' = "list"
            /\ UNCHANGED error
    /\ UNCHANGED <<data, nodes, root_returned, extracted, written, output,
                   mesh_state, returned>>

\* lines 69, 95-98 and 54-55: the innermost list returns; its caller is
\* _read_node, which finishes its node and hands back end_offset as the
\* offset, or read_fbx_binary, which returns the tree
ListReturn ==
    IF Len(stack) = 1
    THEN /\ nodes' = Top.nodes
         /\ root_returned' = TRUE
         /\ stack' = <<>>
         /\ pc' = "build"
         /\ UNCHANGED offset
    ELSE LET caller == stack[Len(stack) - 1]
             node == FBXNode(caller.node, Top.nodes)
         IN  /\ stack' = [SubSeq(stack, 1, Len(stack) - 1) EXCEPT
                             ![Len(stack) - 1] =
                                 [caller EXCEPT !.nodes = Append(caller.nodes, node),
                                                !.node = NoNode]]
             /\ offset' = node.end_offset
             /\ pc' = "list"
             /\ UNCHANGED <<nodes, root_returned>>

\* lines 62-65: the loop test and the sentinel test
ListStep ==
    /\ pc = "list"
    /\ IF /\ offset < Top.end_offset
          /\ Slice(data, offset, offset + null_size) # Zeros(null_size)
       THEN pc' = "node" /\ UNCHANGED <<offset, stack, nodes, root_returned>>
       ELSE ListReturn
    /\ UNCHANGED <<data, extracted, written, output,
                   mesh_state, returned, error>>

\* lines 66-68 and 72-86: the record header and the name; a record with
\* end_offset 0 gives no node and the loop goes on after its header
NodeStep ==
    /\ pc = "node"
    /\ Len(Top.nodes) < MaxNodes
    /\ IF ~CanUnpack(data, offset, 3 * HeaderWidth)
       THEN Crash("struct.error") /\ UNCHANGED <<offset, stack>>
       ELSE LET end_offset == Field(data, offset, HeaderWidth)
                num_props == Field(data, offset + HeaderWidth, HeaderWidth)
                o == offset + 3 * HeaderWidth
            IN  IF end_offset = 0
                THEN offset' = o /\ pc' = "list" /\ UNCHANGED <<stack, error>>
                ELSE IF o >= Len(data)
                THEN Crash("IndexError") /\ UNCHANGED <<offset, stack>>
                ELSE LET name_len == At(data, o)
                     IN  /\ offset' = o + 1 + name_len
                         /\ stack' = [stack EXCEPT ![Len(stack)].node =
                                [start |-> offset, end_offset |-> end_offset,
                                 name |-> Slice(data, o + 1, o + 1 + name_len),
                                 properties |-> <<>>, props_left |-> num_props]]
                         /\ pc' = "props"
                         /\ UNCHANGED error
    /\ UNCHANGED <<data, nodes, root_returned, extracted, written, output,
                   mesh_state, returned>>

\* lines 89-91: one turn of the property loop
PropStep ==
    /\ pc = "props"
    /\ Top.node.props_left > 0
    /\ LET r == read_property(data, offset)
       IN  IF r.ok
           THEN /\ offset' = r.offset
                /\ stack' = [stack EXCEPT ![Len(stack)].node =
                       [Top.node EXCEPT
                           !.properties = Append(@, [type_code |-> At(data, offset),
                                                     value |-> r.value]),
                           !.props_left = @ - 1]]
                /\ UNCHANGED <<pc, error>>
           ELSE Crash(r.exc) /\ UNCHANGED <<offset, stack>>
    /\ UNCHANGED <<data, nodes, root_returned, extracted, written, output,
                   mesh_state, returned>>

\* lines 93-98 and 67-68: the children, when cells remain before end_offset
ChildrenStep ==
    /\ pc = "props"
    /\ Top.node.props_left = 0
    /\ IF offset < Top.node.end_offset
       THEN IF Len(stack) < RecursionLimit
            THEN /\ stack' = Append(stack, Frame(Top.node.end_offset))
                 /\ pc' = "list"
                 /\ UNCHANGED <<offset, error>>
            ELSE Crash("RecursionError") /\ UNCHANGED <<offset, stack>>
       ELSE /\ stack' = [stack EXCEPT ![Len(stack)] =
                   [Top EXCEPT !.nodes = Append(Top.nodes, FBXNode(Top.node, <<>>)),
                               !.node = NoNode]]
            /\ offset' = Top.node.end_offset
            /\ pc' = "list"
            /\ UNCHANGED error
    /\ UNCHANGED <<data, nodes, root_returned, extracted, written, output,
                   mesh_state,
                   returned>>

\* lines 1049-1052: the tree goes to build_merged_mesh, whose outcome the
\* decoder does not determine here: a mesh, None (exit status 1) or an
\* exception
BuildStep ==
    /\ pc = "build"
    /\ extracted' = TRUE
    /\ \E outcome \in {"mesh", "none", "AssertionError", "IndexError"} :
          IF outcome = "mesh" THEN pc' = "write" /\ returned' = "mesh" /\ UNCHANGED error
          ELSE IF outcome = "none" THEN pc' = "exit1" /\ returned' = "none" /\ UNCHANGED error
          ELSE Crash(outcome) /\ returned' = "raised"
    /\ UNCHANGED <<data, offset, stack, nodes, root_returned, written, output,
                   mesh_state>>

(***************************************************************************)
(* The serializer.  The output file is the sequence of records written to  *)
(* it, each with its size in bytes.                                        *)
(***************************************************************************)
\* floats of a bone matrix (mat4_identity, mat4_from_fbx, mat4_inverse)
MatrixFloats == 16
\* largest value of the length byte and of a bone-index byte
ByteMax == 255

\* the text of a bone name: the names 1..5 in their sort order are "b",
\* "forearm.L", "forearm.R", the two characters U+00E9 U+20AC, and 64 times
\* the character U+1F600 (256 bytes)
NameText(name) ==
    CASE name = 1 -> <<98>>
      [] name = 2 -> <<102, 111, 114, 101, 97, 114, 109, 46, 76>>
      [] name = 3 -> <<102, 111, 114, 101, 97, 114, 109, 46, 82>>
      [] name = 4 -> <<233, 8364>>
      [] OTHER -> [k \in 1..((ByteMax + 1) \div 4) |-> 128512]

\* str.encode('utf-8') of one character
Utf8(cp) ==
    IF cp < 128 THEN <<cp>>
    ELSE IF cp < 2048 THEN <<192 + (cp \div 64), 128 + (cp % 64)>>
    ELSE IF cp < 65536
    THEN <<224 + (cp \div 4096), 128 + ((cp \div 64) % 64), 128 + (cp % 64)>>
    ELSE <<240 + (cp \div 262144), 128 + ((cp \div 4096) % 64),
           128 + ((cp \div 64) % 64), 128 + (cp % 64)>>

encode(text) == ConcatAll([k \in 1..Len(text) |-> Utf8(text[k])])

\* lines 994-998: magic, version and the three counts, 4 bytes each
HeaderRecord(mesh) ==
    [rec |-> "header", size |-> 4 + 4 + 4 + 4 + 4,
     counts |-> <<Len(mesh.vertices), Len(mesh.indices), Len(mesh.bones)>>]

\* lines 1001-1006: 3 + 3 + 2 floats, 4 index bytes cut at 255, 4 floats
VertexRecord(v) ==
    [rec |-> "vertex", size |-> 12 + 12 + 8 + 4 + 16,
     pos |-> v.pos, normal |-> v.normal, uv |-> v.uv,
     bone_indices |-> [k \in 1..4 |-> Min2(v.bone_indices[k], ByteMax)],
     bone_weights |-> v.bone_weights]

\* lines 1009-1010
IndexRecord(idx) == [rec |-> "index", size |-> 4, value |-> idx]

\* lines 1013-1024: the length byte, the name, the parent, two matrices
BoneRecord(bone) ==
    LET name_bytes == encode(NameText(bone.name))
    IN  [rec |-> "bone",
         size |-> 1 + Len(name_bytes) + 4 + 4 * MatrixFloats + 4 * MatrixFloats,
         name_bytes |-> name_bytes, parent |-> bone.parent]

\* struct.pack('<B', len(name_bytes)) raises struct.error past 255
BonePacks(bone) == Len(encode(NameText(bone.name))) <= ByteMax

\* the bones before the first one that does not pack
RECURSIVE PackedBones(_)
PackedBones(bones) ==
    IF bones = <<>> \/ ~BonePacks(Head(bones)) THEN <<>>
    ELSE <<Head(bones)>> \o PackedBones(Tail(bones))

\* a serializer that writes the indices before the vertices
write_skmesh_indices_first(mesh) ==
    LET packed == PackedBones(mesh.bones)
    IN  [ok |-> Len(packed) = Len(mesh.bones),
         file |-> <<HeaderRecord(mesh)>>
                  \o [k \in 1..Len(mesh.indices) |-> IndexRecord(mesh.indices[k])]
                  \o [k \in 1..Len(mesh.vertices) |-> VertexRecord(mesh.vertices[k])]
                  \o [k \in 1..Len(packed) |-> BoneRecord(packed[k])]]

\* lines 988-1024: what the file holds when write_skmesh returns (ok) or
\* raises
write_skmesh(mesh) ==
    LET packed == PackedBones(mesh.bones)
    IN  [ok |-> Len(packed) = Len(mesh.bones),
         file |-> <<HeaderRecord(mesh)>>
                  \o [k \in 1..Len(mesh.vertices) |-> VertexRecord(mesh.vertices[k])]
                  \o [k \in 1..Len(mesh.indices) |-> IndexRecord(mesh.indices[k])]
                  \o [k \in 1..Len(packed) |-> BoneRecord(packed[k])]]

\* lines 1054-1055: write_skmesh opens the file and writes the mesh; an
\* exception leaves what was written so far
WriteStep ==
    /\ pc = "write"
    /\ written' = TRUE
    /\ LET w == write_skmesh(result)
       IN  /\ output' = w.file
           /\ IF w.ok THEN pc' = "exit0" /\ UNCHANGED error
              ELSE Crash("struct.error")
    /\ UNCHANGED <<data, offset, stack, nodes, root_returned, extracted, mesh_state,
                   returned>>

\* polygon index streams that give no triangle, and one that gives one:
\* an empty stream, a loop of two corners, a loop of one
EmptyStreams == {<<>>, <<0, 0 - 2>>, <<0 - 1>>, <<0, 1, 0 - 3>>}

\* the geometries beside the target: none, one without polygons, the sleeve
OtherGeos == {<<>>, <<PlainGeo(GeoId(2), <<1, 0 - 1, 0>>, <<>>)>>, <<Sleeve>>}

\* scenes whose target geometry may assemble to nothing
InitEmpty ==
    \E stream \in EmptyStreams, others \in OtherGeos :
        /\ connections = SceneConnections(1, <<0>>)
        /\ models = SceneModels(1, <<0>>, <<1>>)
        /\ skin_deformers = <<SkinId(1)>>
        /\ clusters = [c \in {ClusterId(1)} |-> Cluster(c, 1, <<0>>, <<WDen>>)]
        /\ geometries =
              <<PlainGeo(GeoId(1), <<1, 2, 3>>, ExtractPolygons(stream, <<>>, <<>>))>>
              \o others

\* bone names of the naming scenes
NameVals == 1..5

\* naming scenes: 1 to MaxBones root bones with any names, cluster k
\* weighting control point k - 1 of a triangle, with or without the sleeve
InitNames ==
    \E n \in 1..MaxBones, sleeve \in BOOLEAN :
    \E names \in [1..n -> NameVals] :
        /\ connections = SceneConnections(n, [k \in 1..n |-> 0])
        /\ models = SceneModels(n, [k \in 1..n |-> 0], names)
        /\ skin_deformers = <<SkinId(1)>>
        /\ clusters = [c \in {ClusterId(k) : k \in 1..n} |->
                          Cluster(c, names[c - ClusterId(0)],
                                  <<c - ClusterId(1)>>, <<WDen>>)]
        /\ geometries =
              <<PlainGeo(GeoId(1), [k \in 1..MaxBones |-> k],
                         <<[k \in 1..MaxBones |-> k - 1]>>)>>
              \o (IF sleeve THEN <<Sleeve>> ELSE <<>>)

\* skin deformers of the selection scenes
MaxSkins == 3
\* influence indices of a cluster of the selection scenes
InfluenceCounts == 0..2

\* selection scenes: up to MaxSkins deformers of the target geometry in any
\* encounter order, deformer k with cluster k of a chosen number of
\* influences, and optionally a second cluster of one influence under
\* deformer 1
InitSkins ==
    \E n \in 0..MaxSkins, extra \in BOOLEAN :
    \E order \in Permutations1(n), count \in [1..n -> InfluenceCounts] :
        LET cl == 1..(IF extra /\ n >= 1 THEN n + 1 ELSE n)
            Under(k) == IF k > n THEN 1 ELSE k
        IN  /\ connections =
                  <<Conn("OO", GeoId(1), MeshModelId(1))>>
                  \o [k \in 1..n |-> Conn("OO", SkinId(k), GeoId(1))]
                  \o [k \in cl |-> Conn("OO", ClusterId(k), SkinId(Under(k)))]
                  \o [k \in cl |-> Conn("OO", ModelId(k), ClusterId(k))]
            /\ models = [m \in {ModelId(k) : k \in cl} \cup {MeshModelId(1)} |->
                            [name |-> IF m = MeshModelId(1) THEN 1 ELSE m - ModelId(0)]]
            /\ skin_deformers = [k \in 1..n |-> SkinId(order[k])]
            /\ clusters = [c \in {ClusterId(k) : k \in cl} |->
                  LET k == c - ClusterId(0)
                      len == IF k > n THEN 1 ELSE count[k]
                  IN  Cluster(c, k, [j \in 1..len |-> j - 1], [j \in 1..len |-> WDen])]
            /\ geometries = <<PlainGeo(GeoId(1), <<1, 2, 3>>, <<<<0, 1, 2>>>>)>>

\* connection types of the edge scenes: object-object and object-property
EdgeTypes == {"OO", "OP"}

\* edge scenes: two bones, the model of the first connected to the model of
\* the second by an edge of either type, alone or after an edge to the mesh
\* model
InitEdges ==
    \E t \in EdgeTypes, before \in BOOLEAN, sleeve \in BOOLEAN :
        /\ connections =
              SceneConnections(2, <<0, 0>>)
              \o (IF before THEN <<Conn("OO", ModelId(1), MeshModelId(1))>> ELSE <<>>)
              \o <<Conn(t, ModelId(1), ModelId(2))>>
        /\ models = SceneModels(2, <<0, 0>>, <<1, 2>>)
        /\ skin_deformers = <<SkinId(1)>>
        /\ clusters = [c \in {ClusterId(1), ClusterId(2)} |->
                          Cluster(c, c - ClusterId(0), <<c - ClusterId(1)>>, <<WDen>>)]
        /\ geometries =
              <<PlainGeo(GeoId(1), <<1, 2, 3>>, <<<<0, 1, 2>>>>)>>
              \o (IF sleeve THEN <<Sleeve>> ELSE <<>>)

\* twin scenes: the quad and triangle of the layer scenes twice, once as
\* the skinned geometry and once, with the same layers, as a geometry no
\* deformer is connected to
InitTwins ==
    \E na \in AttrConfigs(7), ua \in AttrConfigs(7) :
        LET geo == AsmGeo(<<1, 2, 3, 4>>, <<0, 1, 2, 0 - 4, 0, 2, 0 - 4>>, na, ua)
        IN  /\ connections = SceneConnections(1, <<0>>)
            /\ models = SceneModels(1, <<0>>, <<1>>)
            /\ skin_deformers = <<SkinId(1)>>
            /\ clusters = [c \in {ClusterId(1)} |-> Cluster(c, 1, <<0>>, <<WDen>>)]
            /\ geometries = <<geo, [geo EXCEPT !.id = GeoId(2)]>>

\* lines 1049-1054: build_merged_mesh is back in main, which exits with
\* status 1 on None and goes on to write_skmesh on a mesh; an exception
\* leaves main
MainStep ==
    /\ pc = "done"
    /\ pc' = CASE returned = "mesh" -> "write"
               [] returned = "none" -> "exit1"
               [] returned = "raised" -> "crashed"
    /\ UNCHANGED <<mesh_state, returned, error, decoder>>

NextMain ==
    \/ Next
    \/ MainStep
    \/ WriteStep

\* the resolver scenes, main not yet back from build_merged_mesh
InitResolve ==
    /\ InitLocals /\ NoPoses
    /\ pc = "select"
    /\ data = <<>> /\ offset = 0 /\ stack = <<>> /\ nodes = <<>>
    /\ root_returned = TRUE /\ extracted = TRUE /\ written = FALSE
    /\ \/ InitTargets
       \/ InitEmpty
       \/ InitNames
       \/ InitSkins
       \/ InitEdges
       \/ InitTwins

SpecResolve == InitResolve /\ [][NextMain]_vars

(***************************************************************************)
(* Extraction of the geometry records from the decoded tree.  Node names   *)
(* and string properties are the decoded text.                             *)
(***************************************************************************)
\* FBXNode.find_all and FBXNode.find (lines 28-35)
find_all(children, name) ==
    LET Named(c) == c.name = name
    IN  SelectSeq(children, Named)

Has(children, name) == find_all(children, name) # <<>>

find(children, name) == find_all(children, name)[1]

\* the find(...) result is a node and its property list is not empty
HasProperty(children, name) ==
    Has(children, name) /\ find(children, name).properties # <<>>

\* a flat array cut into tuples of n; the last tuple reads past the end of
\* the array (IndexError) when the length is no multiple of n
Group(raw, n) ==
    IF Len(raw) % n = 0
    THEN Ok([k \in 1..(Len(raw) \div n) |-> SubSeq(raw, n * (k - 1) + 1, n * k)])
    ELSE Raise

\* node.properties[0] of a descriptor node, or the default when the node
\* is absent
Descriptor(layer, name, default) ==
    IF Has(layer, name)
    THEN LET props == find(layer, name).properties
         IN  IF props = <<>> THEN Raise ELSE Ok(props[1].value)
    ELSE Ok(default)

\* lines 207-225 and 227-246: one layer element, its values in tuples of n
ExtractLayer(children, layer_name, values_name, index_name, n) ==
    IF ~Has(children, layer_name) THEN Ok(AttrAbsent)
    ELSE LET layer == find(children, layer_name).children
         IN  IF ~HasProperty(layer, values_name) THEN Ok(AttrAbsent)
             ELSE LET values  == Group(find(layer, values_name).properties[1].value, n)
                      mapping == Descriptor(layer, "MappingInformationType", "ByPolygonVertex")
                      ref     == Descriptor(layer, "ReferenceInformationType", "Direct")
                      index   == IF ref.ok /\ ref.v = "IndexToDirect"
                                 THEN Descriptor(layer, index_name, <<>>)
                                 ELSE Ok(<<>>)
                  IN  IF values.ok /\ mapping.ok /\ ref.ok /\ index.ok
                      THEN Ok(Attr(values.v, mapping.v, ref.v, index.v))
                      ELSE Raise

\* the outcome of extract_geometry: a record, None, or IndexError
Found(g) == [ok |-> TRUE, found |-> TRUE, v |-> g]
NotFound == [ok |-> TRUE, found |-> FALSE]
Raised == [ok |-> FALSE, found |-> FALSE]

\* a Geometry node that carries the three properties of a mesh
IsMeshNode(node) ==
    /\ node.name = "Geometry"
    /\ Len(node.properties) >= 3
    /\ node.properties[3].value = "Mesh"

\* a position is kept as its x coordinate, the one coordinate the
\* conversion compares (line 932)
XOf(tuples) == [k \in 1..Len(tuples) |-> tuples[k][1]]

\* lines 177-248: the record of one mesh node, whose Vertices and
\* PolygonVertexIndex are present
GeometryRecord(node) ==
    LET positions == Group(find(node.children, "Vertices").properties[1].value, 3)
        polygons  == ExtractPolygons(
                        find(node.children, "PolygonVertexIndex").properties[1].value,
                        <<>>, <<>>)
        na == ExtractLayer(node.children, "LayerElementNormal", "Normals", "NormalsIndex", 3)
        ua == ExtractLayer(node.children, "LayerElementUV", "UV", "UVIndex", 2)
    IN  IF positions.ok /\ na.ok /\ ua.ok
        THEN Found(Geo(node.properties[1].value, XOf(positions.v), polygons,
                       na.v.values, na.v.mapping, na.v.ref, na.v.index_array,
                       ua.v.values, ua.v.mapping, ua.v.ref, ua.v.index_array))
        ELSE Raised

\* lines 163-250, called with a geo_id: the first mesh node of that id
\* that has both required children; a node without them is passed over
RECURSIVE extract_geometry(_, _)
extract_geometry(objects, geo_id) ==
    IF objects = <<>> THEN NotFound
    ELSE LET node == Head(objects)
         IN  IF /\ IsMeshNode(node)
                /\ node.properties[1].value = geo_id
                /\ HasProperty(node.children, "Vertices")
             THEN LET positions ==
                         Group(find(node.children, "Vertices").properties[1].value, 3)
                  IN  IF ~positions.ok THEN Raised
                      ELSE IF HasProperty(node.children, "PolygonVertexIndex")
                      THEN GeometryRecord(node)
                      ELSE extract_geometry(Tail(objects), geo_id)
             ELSE extract_geometry(Tail(objects), geo_id)

\* lines 253-264: one call of extract_geometry per mesh node, in node
\* order; a None is left out of the list
extract_all_geometries(tree) ==
    IF ~Has(tree, "Objects") THEN Ok(<<>>)
    ELSE LET objects == find(tree, "Objects").children
             meshes  == SelectSeq(objects, IsMeshNode)
             each    == [k \in 1..Len(meshes) |->
                            extract_geometry(objects, meshes[k].properties[1].value)]
             kept    == SelectSeq(each, LAMBDA r : r.found)
         IN  IF \E k \in 1..Len(each) : ~each[k].ok THEN Raise
             ELSE Ok([k \in 1..Len(kept) |-> kept[k].v])

\* geometry nodes of an extraction scene
MaxGeoNodes == 2

\* a decoded node and a decoded property, as FBXNode and PropStep build them
Node(name, properties, children) ==
    [name |-> name, properties |-> properties, children |-> children,
     start |-> 0, end_offset |-> 0]

Prop(type_code, value) == [type_code |-> type_code, value |-> value]

\* the children of a geometry node
VerticesNode == Node("Vertices", <<Prop(100, <<1, 0, 0, 2, 0, 0, 3, 0, 0>>)>>, <<>>)
IndexNode == Node("PolygonVertexIndex", <<Prop(105, <<0, 1, 0 - 3>>)>>, <<>>)
NormalsNode == Node("Normals", <<Prop(100, <<0, 1, 0, 0, 0, 1>>)>>, <<>>)

GeoChildren ==
    {<<VerticesNode, IndexNode>>,
     <<IndexNode>>,
     <<Node("Vertices", <<>>, <<>>), IndexNode>>,
     <<VerticesNode>>,
     <<VerticesNode, Node("PolygonVertexIndex", <<>>, <<>>)>>,
     <<Node("Vertices", <<Prop(100, <<1, 0, 0, 2>>)>>, <<>>), IndexNode>>,
     <<VerticesNode, IndexNode, Node("LayerElementNormal", <<>>, <<NormalsNode>>)>>,
     <<VerticesNode, IndexNode,
       Node("LayerElementNormal", <<>>,
            <<NormalsNode,
              Node("MappingInformationType", <<Prop(83, "ByPolygonVertex")>>, <<>>),
              Node("ReferenceInformationType", <<Prop(83, "IndexToDirect")>>, <<>>),
              Node("NormalsIndex", <<Prop(105, <<0, 1, 0>>)>>, <<>>)>>)>>,
     <<VerticesNode, IndexNode,
       Node("LayerElementUV", <<>>,
            <<Node("UV", <<Prop(100, <<0, 0, 1, 1>>)>>, <<>>),
              Node("ReferenceInformationType", <<Prop(83, "IndexToDirect")>>, <<>>)>>)>>,
     <<VerticesNode, IndexNode,
       Node("LayerElementNormal", <<>>,
            <<NormalsNode, Node("MappingInformationType", <<>>, <<>>)>>)>>}

\* geometry nodes: meshes of either id with any children, a shape, a node
\* with two properties
GeoNodes ==
    {Node("Geometry", <<Prop(76, GeoId(k)), Prop(83, "g"), Prop(83, "Mesh")>>, ch) :
        k \in 1..2, ch \in GeoChildren}
    \cup {Node("Geometry", <<Prop(76, GeoId(2)), Prop(83, "g"), Prop(83, "Shape")>>,
               <<VerticesNode, IndexNode>>),
          Node("Geometry", <<Prop(76, GeoId(2)), Prop(83, "g")>>,
               <<VerticesNode, IndexNode>>)}

\* the mesh node of id GeoId(1) with the given PolygonVertexIndex stream
StreamNode(stream) ==
    Node("Geometry", <<Prop(76, GeoId(1)), Prop(83, "g"), Prop(83, "Mesh")>>,
         <<VerticesNode, Node("PolygonVertexIndex", <<Prop(105, stream)>>, <<>>)>>)

\* build_skinned_mesh is entered with the tree (line 474); the connection,
\* model and deformer records are those of a one-bone scene
InitExtract ==
    /\ InitLocals /\ NoPoses
    /\ pc = "extract"
    /\ data = <<>> /\ offset = 0 /\ stack = <<>>
    /\ root_returned = TRUE /\ extracted = TRUE /\ written = FALSE
    /\ \/ \E gs \in SeqsUpTo(GeoNodes, MaxGeoNodes), objects \in BOOLEAN :
             /\ objects \/ gs = <<>>
             /\ nodes = IF objects THEN <<Node("Objects", <<>>, gs)>> ELSE <<>>
       \/ \E stream \in SeqsUpTo(StreamVals, MaxStream) :
             nodes = <<Node("Objects", <<>>, <<StreamNode(stream)>>)>>
    /\ connections = SceneConnections(1, <<0>>)
    /\ models = SceneModels(1, <<0>>, <<1>>)
    /\ skin_deformers = <<SkinId(1)>>
    /\ clusters = [c \in {ClusterId(1)} |-> Cluster(c, 1, <<0>>, <<WDen>>)]
    /\ geometries = <<>>

\* line 480
ExtractStep ==
    /\ pc = "extract"
    /\ LET r == extract_all_geometries(nodes)
       IN  IF r.ok
           THEN geometries' = r.v /\ pc' = "select" /\ UNCHANGED <<returned, error>>
           ELSE Finish("raised", "IndexError") /\ UNCHANGED geometries
    /\ UNCHANGED <<connections, models, skin_deformers, clusters, skin_id, skin_geo_id,
                   target_geo, skin_clusters, bone_ids, bone_parents, vertex_bones,
                   final_vertices, final_indices, vertex_map, tri_indices,
                   sorted_order, result, decoder, poses>>

NextExtract ==
    \/ ExtractStep
    \/ Next

SpecExtract == InitExtract /\ [][NextExtract]_vars

\* input files: well-formed ones and every one-cell change of them
\* a 32-bit file: a node with a scalar and a child that holds a raw array
FileNested ==
    <<1, 7400,
      24, 1, 2, 1, 9,   73, 7,
      20, 1, 6, 1, 8,   105, 2, 0, 2, 5, 6,
      0, 0, 0, 0,
      0, 0, 0, 0>>

\* a string and a compressed array of one 8-byte element
FileCompressed ==
    <<1, 7400,
      18, 2, 9, 1, 9,   83, 1, 4,   100, 1, 1, 4, 120, 2, 5, 6,
      0, 0, 0, 0>>

\* Scenario D: a good node, then a node whose array has encoding 2
FileScenarioD ==
    <<1, 7400,
      9, 1, 2, 1, 9,    73, 7,
      19, 1, 5, 1, 8,   105, 1, 2, 1, 5,
      0, 0, 0, 0>>

\* a 64-bit file: header fields of two cells, a sentinel of seven
FileWide ==
    <<1, 7500,
      12, 0, 1, 0, 2, 0, 1, 9,   67, 1,
      0, 0, 0, 0, 0, 0, 0>>

\* a node whose second property has the unknown tag Z
FileUnknownTag ==
    <<1, 7400,
      11, 2, 4, 1, 9,   73, 7,   90, 7,
      0, 0, 0, 0>>

BaseFiles == {FileNested, FileCompressed, FileScenarioD, FileWide, FileUnknownTag}

\* values a changed cell takes: small counts and offsets, tags, a version
MutVals == {0, 1, 2, 3, 9, 20, 73, 83, 90, 105, 120, 7500}

Files ==
    BaseFiles \cup
    {[f EXCEPT ![k] = v] : <<f, k, v>> \in
        UNION {{<<f, k, v>> : k \in 1..Len(f), v \in MutVals} : f \in BaseFiles}}

\* main has its arguments and is about to call read_fbx_binary (line 1045)
InitDecode ==
    /\ InitLocals /\ NoPoses
    /\ connections = <<>> /\ models = <<>> /\ geometries = <<>>
    /\ skin_deformers = <<>> /\ clusters = <<>>
    /\ pc = "open"
    /\ data \in Files
    /\ offset = 0 /\ stack = <<>> /\ nodes = <<>>
    /\ root_returned = FALSE /\ extracted = FALSE /\ written = FALSE

NextDecode ==
    \/ ReadHeaderStep
    \/ ListStep
    \/ NodeStep
    \/ PropStep
    \/ ChildrenStep
    \/ BuildStep
    \/ WriteStep

SpecDecode == InitDecode /\ [][NextDecode]_vars


(***************************************************************************)
(* Properties of the bone list.                                            *)
(***************************************************************************)
\* build_skinned_mesh has returned a mesh
BonesReturned == pc = "merge" \/ returned = "mesh"

HierarchyBuilt == pc \in {"weights", "assemble", "toposort", "merge", "done"}

\* the bone reached from bone i by k steps up the parent relation of
\* lines 599-614, -1 once a root has been passed
RECURSIVE Up(_, _, _)
Up(bp, i, k) ==
    IF i < 0 \/ i >= Len(bp) THEN 0 - 1
    ELSE IF k = 0 THEN i
    ELSE Up(bp, At(bp, i), k - 1)

HasCycle(bp) == \E i \in 0..(Len(bp) - 1) : Up(bp, i, Len(bp)) # 0 - 1

\* C1: in every bone list build_skinned_mesh returns, the bone at position
\* i has parent -1 or a parent at a position before i
C1_ParentsPrecedeChildren ==
    BonesReturned =>
        \A i \in 0..(Len(result.bones) - 1) :
            LET p == At(result.bones, i).parent
            IN  p = 0 - 1 \/ (0 <= p /\ p < i)

\* a mesh was returned for bones whose name order is not topological
C1_Witness ==
    /\ returned = "mesh"
    /\ \E i \in 0..(Len(bone_parents) - 1) : At(bone_parents, i) > i
    /\ \E i \in 0..(Len(result.bones) - 1) : At(result.bones, i).parent >= 0

\* the chain root -> mid -> tip discovered as (tip, root, mid)
ScenarioC ==
    /\ Len(skin_clusters) = 3
    /\ connections = SceneConnections(3, <<3, 0, 2>>)
    /\ clusters[ClusterId(1)].name = 3
    /\ clusters[ClusterId(2)].name = 2
    /\ clusters[ClusterId(3)].name = 1

\* C2: the re-indexing is a consistent relabeling: sorted_order is a
\* permutation of the name-sorted bones, every output bone keeps its name,
\* its parent index designates the bone that was its parent before the
\* sort, every weighted vertex slot designates the bone it designated
\* before the sort, and the chain of Scenario C comes out as
\* (root, mid, tip) with parents (-1, 0, 1)
C2_ConsistentRelabeling ==
    BonesReturned =>
        LET n == Len(skin_clusters)
        IN  /\ Len(result.bones) = n /\ Len(sorted_order) = n
            /\ \A old \in 0..(n - 1) :
                  Cardinality({j \in 1..n : sorted_order[j] = old}) = 1
            /\ \A j \in 0..(n - 1) :
                  LET old == At(sorted_order, j)
                      op  == At(bone_parents, old)
                      np  == At(result.bones, j).parent
                  IN  /\ At(result.bones, j).name = At(bone_names, old)
                      /\ IF op = 0 - 1 THEN np = 0 - 1
                         ELSE 0 <= np /\ np < n /\ At(sorted_order, np) = op
            /\ \A v \in 1..Len(final_vertices) :
                  \A sl \in 1..MaxInfluences :
                      final_vertices[v].bone_weights[sl].n # 0 =>
                          /\ result.vertices[v].bone_indices[sl] \in 0..(n - 1)
                          /\ At(sorted_order, result.vertices[v].bone_indices[sl])
                                = final_vertices[v].bone_indices[sl]
            /\ ScenarioC =>
                  /\ [j \in 1..3 |-> result.bones[j].name] = <<2, 1, 3>>
                  /\ [j \in 1..3 |-> result.bones[j].parent] = <<0 - 1, 0, 1>>

\* Scenario C ran to the end, and its sort moved a weighted vertex slot
C2_Witness ==
    /\ ScenarioC /\ returned = "mesh"
    /\ \E v \in 1..Len(final_vertices) :
          /\ final_vertices[v].bone_weights[1].n # 0
          /\ final_vertices[v].bone_indices[1] # result.vertices[v].bone_indices[1]

\* C3: when the parent relation among the resolved bones has a cycle, the
\* run ends in an error and no mesh is returned, and a returned mesh never
\* has fewer bones than were resolved
C3_CycleIsFatal ==
    /\ (HierarchyBuilt /\ HasCycle(bone_parents)) =>
          /\ ~BonesReturned
          /\ pc = "done" => returned = "raised"
    /\ BonesReturned => Len(result.bones) = Len(skin_clusters)

\* the run died on the assert for a set of bones with no root at all
C3_Witness ==
    /\ pc = "done" /\ returned = "raised"
    /\ Len(bone_parents) = MaxBones
    /\ \A i \in 0..(Len(bone_parents) - 1) : At(bone_parents, i) >= 0
    /\ Len(sorted_order) < Len(skin_clusters)


(***************************************************************************)
(* Properties of the vertices.                                             *)
(***************************************************************************)
RatAdd(a, b) == Rat(a.n * b.d + b.n * a.d, a.d * b.d)

RECURSIVE RatSum(_)
RatSum(ws) == IF ws = <<>> THEN Rat(0, 1) ELSE RatAdd(Head(ws), RatSum(Tail(ws)))

\* the influences scattered onto control point cp of the target geometry,
\* before sorting and truncation
RawInfluences(cp) ==
    Scatter(InfluencePairs(skin_clusters, clusters, 1),
            Len(At(geometries, target_geo).positions))[cp + 1]

\* the number of slots of a final vertex that carry an influence
UsedSlots(v) ==
    IF v.pos[1] = At(geometries, target_geo).id
    THEN Min2(Len(RawInfluences(v.pos[2])), MaxInfluences)
    ELSE 1

\* C4: every final vertex has 4 bone indices and 4 bone weights, every
\* weight is non-negative, and the weights sum to 1 or are all zero
C4_WeightsNormalized ==
    returned = "mesh" =>
        \A k \in 1..Len(result.vertices) :
            LET v == result.vertices[k]
            IN  /\ Len(v.bone_indices) = 4 /\ Len(v.bone_weights) = 4
                /\ \A sl \in 1..4 : v.bone_weights[sl].n >= 0
                /\ \/ \A sl \in 1..4 : v.bone_weights[sl].n = 0
                   \/ RatSum(v.bone_weights).n = RatSum(v.bone_weights).d

\* C5: every unused slot of a final vertex has bone index 0 and weight 0
C5_UnusedSlotsZero ==
    returned = "mesh" =>
        \A k \in 1..Len(result.vertices) :
            LET v == result.vertices[k]
            IN  \A sl \in (UsedSlots(v) + 1)..MaxInfluences :
                    v.bone_indices[sl] = 0 /\ v.bone_weights[sl].n = 0

\* C6: every bone index of every vertex of the mesh build_merged_mesh
\* returns is an index into the returned bone list
C6_BoneIndicesValid ==
    returned = "mesh" =>
        \A k \in 1..Len(result.vertices) :
            \A sl \in 1..Len(result.vertices[k].bone_indices) :
                /\ 0 <= result.vertices[k].bone_indices[sl]
                /\ result.vertices[k].bone_indices[sl] < Len(result.bones)

\* a returned mesh with a skinned vertex on the last of several bones and a
\* merged vertex on a bone other than bone 0
C6_Witness ==
    /\ returned = "mesh" /\ Len(result.bones) > 1
    /\ \E k \in 1..Len(result.vertices) :
          /\ result.vertices[k].pos[1] = GeoId(1)
          /\ result.vertices[k].bone_indices[1] = Len(result.bones) - 1
    /\ \E k \in 1..Len(result.vertices) :
          /\ result.vertices[k].pos[1] = GeoId(2)
          /\ result.vertices[k].bone_indices[1] > 0

WeightsBuilt == pc \in {"assemble", "toposort", "merge"} \/ returned = "mesh"

Count(s, x) == Cardinality({j \in 1..Len(s) : s[j] = x})

\* C7: for every control point the influences kept are the (at most) 4
\* heaviest scattered onto it, in descending weight order, and each kept
\* weight is its original weight divided by the sum of the kept weights
\* whenever that sum is not zero
C7_TopFourRenormalized ==
    WeightsBuilt =>
        \A cp \in 0..(Len(vertex_bones) - 1) :
            LET raw   == RawInfluences(cp)
                nk    == Min2(Len(raw), MaxInfluences)
                kept  == [j \in 1..nk |->
                            [b |-> At(vertex_bones, cp)[j].b,
                             w |-> At(vertex_bones, cp)[j].w.n]]
                total == SumSeq([j \in 1..nk |-> kept[j].w])
            IN  /\ \A j \in 1..nk : Count(kept, kept[j]) <= Count(raw, kept[j])
                /\ \A j \in 1..Len(raw) :
                      Count(kept, raw[j]) < Count(raw, raw[j]) =>
                          \A i \in 1..nk : raw[j].w <= kept[i].w
                /\ \A j \in 1..(nk - 1) : kept[j].w >= kept[j + 1].w
                /\ total # 0 =>
                      \A j \in 1..nk :
                          At(vertex_bones, cp)[j].w.n * total
                              = kept[j].w * At(vertex_bones, cp)[j].w.d

(***************************************************************************)
(* Properties of the assembler.                                            *)
(***************************************************************************)
Assembled == pc \in {"toposort", "merge"} \/ returned = "mesh"

TargetPolygons == At(geometries, target_geo).polygons

\* the triangles a loop with vertex indices tri must give, written out by
\* position: triangle i is (tri[0], tri[i], tri[i + 1]) for i = 1..n-2
FanOf(tri) ==
    IF Len(tri) < 3 THEN <<>>
    ELSE [t \in 1..(3 * (Len(tri) - 2)) |->
            IF (t - 1) % 3 = 0 THEN At(tri, 0)
            ELSE At(tri, ((t - 1) \div 3) + ((t - 1) % 3))]

\* C8: every loop of n >= 3 corners contributes exactly the n - 2 fan
\* triangles (corner 0, corner i, corner i + 1), which reference only
\* vertices of the loop's own corners, a shorter loop contributes none,
\* and the index buffer's length is a multiple of 3
C8_FanTriangulation ==
    /\ Assembled =>
          /\ Len(tri_indices) = Len(TargetPolygons)
          /\ final_indices = ConcatAll([p \in 1..Len(tri_indices) |-> FanOf(tri_indices[p])])
          /\ Len(final_indices)
                = SumSeq([p \in 1..Len(tri_indices) |->
                            IF Len(TargetPolygons[p]) >= 3
                            THEN 3 * (Len(TargetPolygons[p]) - 2) ELSE 0])
          /\ \A p \in 1..Len(tri_indices) :
                /\ Len(tri_indices[p]) = Len(TargetPolygons[p])
                /\ \A c \in 1..Len(tri_indices[p]) :
                      At(final_vertices, tri_indices[p][c]).pos[2] = TargetPolygons[p][c]
          /\ Len(final_indices) % 3 = 0
    /\ returned = "mesh" => Len(result.indices) % 3 = 0

\* Scenario A's quad came out as (0, 1, 2) and (0, 2, 3)
C8_Witness ==
    /\ returned = "mesh"
    /\ Len(TargetPolygons) = 2
    /\ TargetPolygons[1] = <<0, 1, 2, 3>>
    /\ SubSeq(final_indices, 1, 6) = <<0, 1, 2, 0, 2, 3>>
    /\ Len(final_vertices) = 4

\* the (control point, normal index, UV index) triple of every corner of
\* the target geometry, in running order
CornerKeys ==
    LET cs == AsmCorners(At(geometries, target_geo), vertex_bones)
    IN  [k \in 1..Len(cs) |-> cs[k].key]

CornerVertex == ConcatAll(tri_indices)

\* C9: two corners of the geometry get the same vertex index exactly when
\* their triples are equal, there are as many vertices as distinct
\* triples, and vertices are numbered in order of first occurrence
C9_DedupByTriple ==
    Assembled =>
        LET keys == CornerKeys
            cv   == CornerVertex
        IN  /\ Len(cv) = Len(keys)
            /\ \A a, b \in 1..Len(keys) : (cv[a] = cv[b]) <=> (keys[a] = keys[b])
            /\ Len(final_vertices) = Cardinality(Range(keys))
            /\ \A a \in 1..Len(keys) :
                  LET first == CHOOSE f \in 1..a :
                                  /\ keys[f] = keys[a]
                                  /\ \A g \in 1..(f - 1) : keys[g] # keys[a]
                  IN  cv[a] = Cardinality({keys[g] : g \in 1..(first - 1)})

\* a triple met twice got one vertex, and one control point got two
\* vertices for two different triples
C9_Witness ==
    /\ Assembled
    /\ \E a, b \in 1..Len(CornerKeys) :
          a # b /\ CornerKeys[a] = CornerKeys[b] /\ CornerVertex[a] = CornerVertex[b]
    /\ \E a, b \in 1..Len(CornerKeys) :
          /\ CornerKeys[a][1] = CornerKeys[b][1]
          /\ CornerKeys[a] # CornerKeys[b]
          /\ CornerVertex[a] # CornerVertex[b]

(***************************************************************************)
(* Properties of the decoder.                                              *)
(***************************************************************************)
\* the property loop is about to read a property at the offset
AtProperty == pc = "props" /\ Top.node.props_left > 0 /\ offset < Len(data)

\* the tag at the offset is none of the thirteen the reader knows
UnknownTag == At(data, offset) \notin ScalarTags \cup BlobTags \cup ArrayTags

\* the property at the offset is an array whose encoding is neither 0 nor 1
UnknownEncoding ==
    /\ At(data, offset) \in ArrayTags
    /\ CanUnpack(data, offset + 1, 3)
    /\ At(data, offset + 2) \notin {0, 1}

\* C10: when the decoder reads a property whose type tag is unknown, or an
\* array property whose encoding is neither 0 nor 1, that step fails with
\* ValueError: read_fbx_binary returns no tree, build_merged_mesh is not
\* called and write_skmesh is not called; and the failure is final, no step
\* follows it.
C10_BadPropertyIsFatal ==
    [][/\ pc # "crashed"
       /\ (AtProperty /\ (UnknownTag \/ UnknownEncoding)) =>
             /\ pc' = "crashed" /\ error' = "ValueError"
             /\ ~root_returned' /\ nodes' = <<>>
             /\ ~extracted' /\ ~written']_vars

\* Scenario D has failed at the array with encoding 2, after the first node
\* of the file was decoded
C10_Witness ==
    /\ data = FileScenarioD
    /\ pc = "crashed" /\ error = "ValueError"
    /\ offset = 14 /\ At(data, offset) \in ArrayTags /\ At(data, offset + 2) = 2
    /\ Len(stack) = 1 /\ Len(stack[1].nodes) = 1
    /\ ~root_returned /\ nodes = <<>> /\ ~extracted /\ ~written

(***************************************************************************)
(* Properties of the resolver.                                             *)
(***************************************************************************)
\* the skin selection of lines 497-522 is over
SkinSelected == pc # "select"

\* C11: once the skin selection is over, no deformer is selected (and
\* build_skinned_mesh has returned None) exactly when the input holds no
\* skin deformer record; with at least one record, whatever the influence
\* totals, a deformer is selected.
C11_NoSkinOnlyWhenNone ==
    SkinSelected =>
        /\ (skin_id = NoId) <=> (skin_deformers = <<>>)
        /\ (skin_id = NoId) => (pc = "done" /\ returned = "none")

\* the target resolution of lines 524-559 is over
TargetResolved == SkinSelected /\ skin_id # NoId /\ pc # "target"

\* the deformer's recorded parent: the parent of its last connection record
RecordedParent == child_to_parent(connections, skin_id)

\* positions (0-based) of the geometries each rule accepts
RuleA == {k \in 0..(Len(geometries) - 1) : At(geometries, k).id = RecordedParent}

RuleB ==
    {k \in 0..(Len(geometries) - 1) :
        \E j \in 1..Len(connections) :
            /\ connections[j].parent = RecordedParent
            /\ connections[j].child = At(geometries, k).id}

RuleC ==
    {k \in 0..(Len(geometries) - 1) :
        /\ RecordedParent # NoId
        /\ child_to_parent(connections, At(geometries, k).id) = RecordedParent}

\* C12: the target geometry is one the first matching rule accepts, the
\* rules tried in the order (a) id equal to the deformer's recorded parent,
\* (b) child of that parent, (c) same connection parent as the deformer,
\* (d) first geometry; resolution fails only when there is no geometry.
C12_TargetByFirstRule ==
    TargetResolved =>
        IF RuleA # {} THEN target_geo \in RuleA
        ELSE IF RuleB # {} THEN target_geo \in RuleB
        ELSE IF RuleC # {} THEN target_geo \in RuleC
        ELSE IF geometries # <<>> THEN target_geo = 0
        ELSE target_geo = 0 - 1 /\ returned = "none"

\* rule (b) chose the second geometry of the list although rule (d) would
\* have given the first, the deformer hanging under a model
C12_Witness ==
    /\ TargetResolved /\ pc = "done" /\ returned = "mesh"
    /\ RuleA = {} /\ RuleB = {1} /\ target_geo = 1

(***************************************************************************)
(* Properties of the command surface.                                      *)
(***************************************************************************)
\* the mesh build_merged_mesh returned has no vertex or no index
EmptyMesh ==
    returned = "mesh" /\ (Len(result.vertices) = 0 \/ Len(result.indices) = 0)

\* C13: a mesh with zero vertices or zero indices is fatal: main does not
\* go on to write_skmesh with it, no output is written and the process
\* does not exit with status 0.
C13_EmptyMeshIsFatal ==
    EmptyMesh => pc \notin {"write", "exit0"} /\ ~written

(***************************************************************************)
(* Properties of the extraction.                                           *)
(***************************************************************************)
\* the mesh nodes of the tree
MeshNodes ==
    IF Has(nodes, "Objects")
    THEN SelectSeq(find(nodes, "Objects").children, IsMeshNode) ELSE <<>>

\* a mesh node without Vertices or PolygonVertexIndex, or with one of them
\* holding no property
LacksRequired(node) ==
    \/ ~HasProperty(node.children, "Vertices")
    \/ ~HasProperty(node.children, "PolygonVertexIndex")

\* C14: when a mesh node of the tree lacks a required child, the
\* extraction ends with an error: it does not hand a geometry list to the
\* resolver.
C14_MissingNodeSurfaces ==
    (pc # "extract" /\ \E k \in 1..Len(MeshNodes) : LacksRequired(MeshNodes[k])) =>
        pc = "done" /\ returned = "raised"

(***************************************************************************)
(* Properties of the serializer.                                           *)
(***************************************************************************)
\* bytes of the UTF-8 form of a character
Utf8Len(cp) == IF cp < 128 THEN 1 ELSE IF cp < 2048 THEN 2 ELSE IF cp < 65536 THEN 3 ELSE 4

\* UTF-8 byte length of the name of a bone
NameLen(bone) ==
    LET text == NameText(bone.name)
    IN  SumSeq([k \in 1..Len(text) |-> Utf8Len(text[k])])

\* bytes in the output file
FileSize == SumSeq([k \in 1..Len(output) |-> output[k].size])

\* C15: when write_skmesh returns, the file holds the header, then one
\* record per vertex, per index and per bone in that order, the header
\* counts are V, I and B, and the file has
\* 20 + 52 V + 4 I + sum (1 + L_k + 4 + 64 + 64) bytes; write_skmesh fails
\* only on a bone name longer than 255 bytes.
C15_FileLayout ==
    LET V == Len(result.vertices)
        I == Len(result.indices)
        B == Len(result.bones)
    IN  /\ pc = "exit0" =>
              /\ Len(output) = 1 + V + I + B
              /\ output[1].rec = "header" /\ output[1].counts = <<V, I, B>>
              /\ \A k \in 1..V : output[1 + k].rec = "vertex"
              /\ \A k \in 1..I : /\ output[1 + V + k].rec = "index"
                                 /\ output[1 + V + k].value = result.indices[k]
              /\ \A k \in 1..B : /\ output[1 + V + I + k].rec = "bone"
                                 /\ output[1 + V + I + k].parent = result.bones[k].parent
                                 /\ Len(output[1 + V + I + k].name_bytes)
                                       = NameLen(result.bones[k])
              /\ FileSize = 20 + 52 * V + 4 * I
                            + SumSeq([k \in 1..B |->
                                  1 + NameLen(result.bones[k]) + 4 + 64 + 64])
        /\ (written /\ pc = "crashed") =>
              \E k \in 1..B : NameLen(result.bones[k]) > 255

\* a merged mesh of 6 vertices, 6 indices and 2 bones, one of them named
\* with two characters of 2 and 3 bytes, is in a file of 628 bytes
C15_Witness ==
    /\ pc = "exit0"
    /\ Len(result.vertices) = 6 /\ Len(result.indices) = 6 /\ Len(result.bones) = 2
    /\ \E k \in 1..2 : result.bones[k].name = 4
    /\ \E k \in 1..2 : result.bones[k].name = 1
    /\ FileSize = 628

(***************************************************************************)
(* Properties of the sibling loop.                                         *)
(***************************************************************************)
\* _read_node is about to read a record header whose end_offset is 0
ZeroRecord ==
    /\ pc = "node"
    /\ CanUnpack(data, offset, 3 * HeaderWidth)
    /\ Field(data, offset, HeaderWidth) = 0

\* the loop of the innermost list goes on to decode a sibling at the offset
MoreSiblings ==
    /\ pc = "list"
    /\ offset < Top.end_offset
    /\ Slice(data, offset, offset + null_size) # Zeros(null_size)

\* C16: a record whose end_offset is 0 ends its sibling list: after it no
\* sibling is decoded from the cells that follow, also when they are no
\* sentinel and the end of the list is not reached.
C16_ZeroEndsList == [][ZeroRecord => ~MoreSiblings']_vars

\* the node the innermost list decoded last
LastNode == Top.nodes[Len(Top.nodes)]

\* C17: every turn of the sibling loop moves the offset forward: when
\* _read_node has handed a node back to its list, the offset is past the
\* start of that node, so that read_fbx_binary returns or raises on every
\* buffer with a valid signature.
C17_OffsetAdvances ==
    (pc = "list" /\ stack # <<>> /\ Top.nodes # <<>>) => offset > LastNode.start

\* the nodes of a list and the nodes below them end at or before the end
\* of the node above them
RECURSIVE Nested(_, _)
Nested(list, end) ==
    \A k \in 1..Len(list) :
        /\ list[k].end_offset <= end
        /\ Nested(list[k].children, list[k].end_offset)

\* the offset after the last property of the node being decoded is at most
\* the end_offset of the node
CursorInside ==
    (pc = "props" /\ Top.node.props_left = 0) => offset <= Top.node.end_offset

\* the descendants of every node of the returned tree are nested in it
TreeNested ==
    root_returned =>
        \A k \in 1..Len(nodes) : Nested(nodes[k].children, nodes[k].end_offset)

\* C18: decoded nodes are nested in the byte stream: the offset after the
\* last property of a node is at most the node's end_offset, and so is the
\* end_offset of each of its descendants.
C18_ProperNesting == CursorInside /\ TreeNested

(***************************************************************************)
(* Properties of the array properties.                                     *)
(***************************************************************************)
\* the property loop is about to read an array property with encoding 1
CompressedArray ==
    /\ pc = "props" /\ Top.node.props_left > 0
    /\ CanUnpack(data, offset, 4)
    /\ At(data, offset) \in ArrayTags
    /\ At(data, offset + 2) = 1

\* cells the compressed block at the offset decompresses to
RawLen ==
    Len(Decompress(Slice(data, offset + 4, offset + 4 + At(data, offset + 3))).raw)

\* C19: an array property with encoding 1 is decoded only when its block
\* decompresses to exactly count * element_size; a block that gives fewer
\* or more makes the decode fail.
C19_ExactLength ==
    (CompressedArray /\ read_property(data, offset).ok)
        => RawLen = At(data, offset + 1) * ElemSize(At(data, offset))

(***************************************************************************)
(* Properties of the skin selection.                                       *)
(***************************************************************************)
\* total influences of the k-th deformer in encounter order
TotalAt(k) == total_influences(connections, clusters, skin_deformers[k])

\* first position of the selected deformer in encounter order
SelectedAt ==
    CHOOSE k \in 1..Len(skin_deformers) :
        /\ skin_deformers[k] = skin_id
        /\ \A j \in 1..(k - 1) : skin_deformers[j] # skin_id

\* C20: whenever a deformer is selected, its total of influence indices is
\* at least the total of every other deformer, and among the deformers with
\* that total it is the first in encounter order.
C20_MaxFirstWins ==
    (SkinSelected /\ skin_id # NoId) =>
        /\ skin_id \in Range(skin_deformers)
        /\ \A k \in 1..Len(skin_deformers) :
              /\ TotalAt(k) <= TotalAt(SelectedAt)
              /\ TotalAt(k) = TotalAt(SelectedAt) => k >= SelectedAt

\* three deformers met in the order 2, 3, 1; the second and the third tie
\* at the largest total, 2, and the second is selected
C20_Witness ==
    /\ SkinSelected
    /\ skin_deformers = <<SkinId(2), SkinId(3), SkinId(1)>>
    /\ TotalAt(1) = 1 /\ TotalAt(2) = 2 /\ TotalAt(3) = 2
    /\ skin_id = SkinId(3)
    /\ pc = "exit0"

(***************************************************************************)
(* Properties of the bone hierarchy.                                       *)
(***************************************************************************)
\* bone_parents has an entry for every resolved bone
ParentsDerived == skin_clusters # <<>> /\ Len(bone_parents) = Len(skin_clusters)

\* the bones whose model is the parent of an edge from the model bmid,
\* whatever the type of the edge
EdgeParents(bmid) ==
    {bone_ids[c.parent] : c \in {e \in Range(connections) :
                                    e.child = bmid /\ e.parent \in DOMAIN bone_ids}}

\* C21: before sorting, the parent of a bone with a bone model is a bone
\* whose model is the parent of an edge from the bone's model, regardless
\* of the type of the edge; without such an edge, or without a bone model,
\* the parent is -1.
C21_ParentFollowsEdge ==
    ParentsDerived =>
        \A i \in 1..Len(skin_clusters) :
            LET bmid == clusters[skin_clusters[i]].bone_model_id
            IN  IF bmid = NoId \/ EdgeParents(bmid) = {}
                THEN bone_parents[i] = 0 - 1
                ELSE bone_parents[i] \in EdgeParents(bmid)

(***************************************************************************)
(* The bone matrices (lines 616-661).  A matrix is its 16 elements,        *)
(* row-major; a computed element is an exact quotient in lowest terms.     *)
(* The input matrices have a first column whose magnitude is a whole       *)
(* number, so that the square root of line 635 is exact.                   *)
(***************************************************************************)
\* bones of the pose scenes
MaxPoseBones == 2

\* a matrix a record may or may not carry
Absent == [present |-> FALSE, m |-> <<>>]
Given(m) == [present |-> TRUE, m |-> m]

\* lines 388-389
mat4_identity == <<1, 0, 0, 0,  0, 1, 0, 0,  0, 0, 1, 0,  0, 0, 0, 1>>

\* lines 391-395
mat4_from_fbx(fbx_mat) ==
    IF Len(fbx_mat) < 16 THEN mat4_identity ELSE SubSeq(fbx_mat, 1, 16)

Abs(x) == IF x < 0 THEN 0 - x ELSE x

RECURSIVE Gcd(_, _)
Gcd(a, b) == IF b = 0 THEN a ELSE Gcd(b, a % b)

\* a quotient in lowest terms, its denominator positive
RatNorm(r) ==
    LET g == Gcd(Abs(r.n), Abs(r.d))
        n == IF r.d < 0 THEN 0 - r.n ELSE r.n
    IN  IF n < 0 THEN Rat(0 - ((0 - n) \div g), Abs(r.d) \div g)
        ELSE Rat(n \div g, Abs(r.d) \div g)

RatNeg(a) == Rat(0 - a.n, a.d)
RatMul(a, b) == RatNorm(Rat(a.n * b.n, a.d * b.d))
RatPlus(a, b) == RatNorm(Rat(a.n * b.d + b.n * a.d, a.d * b.d))

RECURSIVE RatTotal(_)
RatTotal(ws) == IF ws = <<>> THEN Rat(0, 1) ELSE RatPlus(Head(ws), RatTotal(Tail(ws)))

\* float(x) of every element
Whole(m) == [k \in 1..Len(m) |-> Rat(m[k], 1)]

\* m[a]*m[b]*m[c]
Term(m, a, b, c) == RatMul(RatMul(At(m, a), At(m, b)), At(m, c))

\* lines 413-431: the cofactor inv[k] of mat4_inverse
Cofactor(m, k) ==
    CASE k = 0 ->
           RatTotal(<<Term(m, 5, 10, 15), RatNeg(Term(m, 5, 11, 14)),
                      RatNeg(Term(m, 9, 6, 15)), Term(m, 9, 7, 14),
                      Term(m, 13, 6, 11), RatNeg(Term(m, 13, 7, 10))>>)
      [] k = 1 ->
           RatTotal(<<RatNeg(Term(m, 1, 10, 15)), Term(m, 1, 11, 14),
                      Term(m, 9, 2, 15), RatNeg(Term(m, 9, 3, 14)),
                      RatNeg(Term(m, 13, 2, 11)), Term(m, 13, 3, 10)>>)
      [] k = 2 ->
           RatTotal(<<Term(m, 1, 6, 15), RatNeg(Term(m, 1, 7, 14)),
                      RatNeg(Term(m, 5, 2, 15)), Term(m, 5, 3, 14),
                      Term(m, 13, 2, 7), RatNeg(Term(m, 13, 3, 6))>>)
      [] k = 3 ->
           RatTotal(<<RatNeg(Term(m, 1, 6, 11)), Term(m, 1, 7, 10),
                      Term(m, 5, 2, 11), RatNeg(Term(m, 5, 3, 10)),
                      RatNeg(Term(m, 9, 2, 7)), Term(m, 9, 3, 6)>>)
      [] k = 4 ->
           RatTotal(<<RatNeg(Term(m, 4, 10, 15)), Term(m, 4, 11, 14),
                      Term(m, 8, 6, 15), RatNeg(Term(m, 8, 7, 14)),
                      RatNeg(Term(m, 12, 6, 11)), Term(m, 12, 7, 10)>>)
      [] k = 5 ->
           RatTotal(<<Term(m, 0, 10, 15), RatNeg(Term(m, 0, 11, 14)),
                      RatNeg(Term(m, 8, 2, 15)), Term(m, 8, 3, 14),
                      Term(m, 12, 2, 11), RatNeg(Term(m, 12, 3, 10))>>)
      [] k = 6 ->
           RatTotal(<<RatNeg(Term(m, 0, 6, 15)), Term(m, 0, 7, 14),
                      Term(m, 4, 2, 15), RatNeg(Term(m, 4, 3, 14)),
                      RatNeg(Term(m, 12, 2, 7)), Term(m, 12, 3, 6)>>)
      [] k = 7 ->
           RatTotal(<<Term(m, 0, 6, 11), RatNeg(Term(m, 0, 7, 10)),
                      RatNeg(Term(m, 4, 2, 11)), Term(m, 4, 3, 10),
                      Term(m, 8, 2, 7), RatNeg(Term(m, 8, 3, 6))>>)
      [] k = 8 ->
           RatTotal(<<Term(m, 4, 9, 15), RatNeg(Term(m, 4, 11, 13)),
                      RatNeg(Term(m, 8, 5, 15)), Term(m, 8, 7, 13),
                      Term(m, 12, 5, 11), RatNeg(Term(m, 12, 7, 9))>>)
      [] k = 9 ->
           RatTotal(<<RatNeg(Term(m, 0, 9, 15)), Term(m, 0, 11, 13),
                      Term(m, 8, 1, 15), RatNeg(Term(m, 8, 3, 13)),
                      RatNeg(Term(m, 12, 1, 11)), Term(m, 12, 3, 9)>>)
      [] k = 10 ->
           RatTotal(<<Term(m, 0, 5, 15), RatNeg(Term(m, 0, 7, 13)),
                      RatNeg(Term(m, 4, 1, 15)), Term(m, 4, 3, 13),
                      Term(m, 12, 1, 7), RatNeg(Term(m, 12, 3, 5))>>)
      [] k = 11 ->
           RatTotal(<<RatNeg(Term(m, 0, 5, 11)), Term(m, 0, 7, 9),
                      Term(m, 4, 1, 11), RatNeg(Term(m, 4, 3, 9)),
                      RatNeg(Term(m, 8, 1, 7)), Term(m, 8, 3, 5)>>)
      [] k = 12 ->
           RatTotal(<<RatNeg(Term(m, 4, 9, 14)), Term(m, 4, 10, 13),
                      Term(m, 8, 5, 14), RatNeg(Term(m, 8, 6, 13)),
                      RatNeg(Term(m, 12, 5, 10)), Term(m, 12, 6, 9)>>)
      [] k = 13 ->
           RatTotal(<<Term(m, 0, 9, 14), RatNeg(Term(m, 0, 10, 13)),
                      RatNeg(Term(m, 8, 1, 14)), Term(m, 8, 2, 13),
                      Term(m, 12, 1, 10), RatNeg(Term(m, 12, 2, 9))>>)
      [] k = 14 ->
           RatTotal(<<RatNeg(Term(m, 0, 5, 14)), Term(m, 0, 6, 13),
                      Term(m, 4, 1, 14), RatNeg(Term(m, 4, 2, 13)),
                      RatNeg(Term(m, 12, 1, 6)), Term(m, 12, 2, 5)>>)
      [] OTHER ->
           RatTotal(<<Term(m, 0, 5, 10), RatNeg(Term(m, 0, 6, 9)),
                      RatNeg(Term(m, 4, 1, 10)), Term(m, 4, 2, 9),
                      Term(m, 8, 1, 6), RatNeg(Term(m, 8, 2, 5))>>)

\* lines 408-438
mat4_inverse(m) ==
    LET inv == [k \in 1..16 |-> Cofactor(m, k - 1)]
        det == RatTotal(<<RatMul(At(m, 0), At(inv, 0)), RatMul(At(m, 1), At(inv, 4)),
                          RatMul(At(m, 2), At(inv, 8)), RatMul(At(m, 3), At(inv, 12))>>)
    IN  IF det.n = 0 THEN Whole(mat4_identity)
        ELSE [k \in 1..16 |-> RatMul(inv[k], RatNorm(Rat(det.d, det.n)))]

\* math.sqrt of a square number
Sqrt(n) == CHOOSE r \in 0..n : r * r = n

\* line 635
col0_mag(tfl) == Sqrt(At(tfl, 0) * At(tfl, 0) + At(tfl, 4) * At(tfl, 4)
                      + At(tfl, 8) * At(tfl, 8))

\* lines 629-639: the scale is read from the first cluster that has a
\* TransformLink, and is its magnitude when that exceeds 1.5
DetectScale(links) ==
    LET have == {k \in 1..Len(links) : links[k].present}
    IN  IF have = {} THEN 1
        ELSE LET first == CHOOSE k \in have : \A j \in have : k <= j
                 mag == col0_mag(mat4_from_fbx(links[first].m))
             IN  IF 2 * mag > 3 THEN mag ELSE 1

\* lines 645-651: every element outside the fourth column is divided
ScaledPose(tfl, scale) ==
    [k \in 1..16 |-> IF (k - 1) % 4 = 3 THEN Rat(tfl[k], 1)
                     ELSE RatNorm(Rat(tfl[k], scale))]

\* lines 642-658
BindPose(link, pose, scale) ==
    IF link.present THEN ScaledPose(mat4_from_fbx(link.m), scale)
    ELSE IF pose.present THEN Whole(mat4_from_fbx(pose.m))
    ELSE Whole(mat4_identity)

\* lines 626-661
PoseStep ==
    /\ pc = "pose"
    /\ LET scale == DetectScale(transform_links)
           bind == [k \in 1..Len(transform_links) |->
                       BindPose(transform_links[k], bind_poses[k], scale)]
       IN  /\ fbx_scale' = scale
           /\ bone_bind_poses' = bind
           /\ bone_inv_bind_poses' = [k \in 1..Len(bind) |-> mat4_inverse(bind[k])]
    /\ pc' = "posed"
    /\ UNCHANGED <<inputs, clusters, locals, error, decoder, transform_links,
                   bind_poses>>

\* a matrix with the first column c and the translation row t
PoseMatrix(c, t) ==
    <<c[1], 0, 0, 0,  c[2], 1, 0, 0,  c[3], 0, 1, 0,  t[1], t[2], t[3], 1>>

\* first columns of magnitude 1, 2 and 5
ColumnVals == {<<1, 0, 0>>, <<2, 0, 0>>, <<0, 3, 4>>}
TranslationVals == {<<0, 0, 0>>, <<4, 0, 0 - 6>>}
\* a matrix property with fewer than 16 elements
ShortMatrix == <<2, 0, 0>>

LinkVals ==
    {Absent, Given(ShortMatrix)}
    \cup {Given(PoseMatrix(c, t)) : c \in ColumnVals, t \in TranslationVals}
PoseVals == {Absent, Given(PoseMatrix(<<2, 0, 0>>, <<4, 0, 0 - 6>>))}

\* build_skinned_mesh has its bones and is at line 626
InitPose ==
    /\ InitLocals
    /\ pc = "pose"
    /\ connections = <<>> /\ models = <<>> /\ geometries = <<>>
    /\ skin_deformers = <<>> /\ clusters = <<>>
    /\ data = <<>> /\ offset = 0 /\ stack = <<>> /\ nodes = <<>>
    /\ root_returned = TRUE /\ extracted = TRUE /\ written = FALSE
    /\ fbx_scale = 1 /\ bone_bind_poses = <<>> /\ bone_inv_bind_poses = <<>>
    /\ \E n \in 1..MaxPoseBones :
          /\ transform_links \in [1..n -> LinkVals]
          /\ bind_poses \in [1..n -> PoseVals]

NextPose == PoseStep

SpecPose == InitPose /\ [][NextPose]_vars

(***************************************************************************)
(* Properties of the bone matrices.                                        *)
(***************************************************************************)
\* elements of the translation row and of the rotation/scale block
TranslationRow == {12, 13, 14}
RotationBlock == {0, 1, 2, 4, 5, 6, 8, 9, 10}

\* the bones with a world bind matrix of 16 elements
WithBindMatrix ==
    {k \in 1..Len(transform_links) :
        transform_links[k].present /\ Len(transform_links[k].m) >= 16}

\* C22: for every bone with a world bind matrix, the translation row of
\* bind_pose is the translation row of that matrix, whatever the detected
\* scale factor; only the rotation/scale block is divided by the factor.
C22_TranslationKept ==
    pc = "posed" =>
        \A k \in WithBindMatrix :
            /\ \A e \in TranslationRow :
                  At(bone_bind_poses[k], e) = Rat(At(transform_links[k].m, e), 1)
            /\ \A e \in RotationBlock :
                  At(bone_bind_poses[k], e)
                      = RatNorm(Rat(At(transform_links[k].m, e), fbx_scale))

(***************************************************************************)
(* Properties of the polygon loops.                                        *)
(***************************************************************************)
\* the extraction of line 480 has returned
Extracted == pc \notin {"extract", "pose", "posed"} /\ nodes # <<>>

\* the PolygonVertexIndex stream of the mesh node a geometry record was
\* read from
StreamOf(geo) ==
    LET objs == nodes[1].children
        from == {k \in 1..Len(objs) :
                    /\ IsMeshNode(objs[k])
                    /\ objs[k].properties[1].value = geo.id
                    /\ HasProperty(objs[k].children, "Vertices")
                    /\ HasProperty(objs[k].children, "PolygonVertexIndex")}
        first == CHOOSE k \in from : \A j \in from : k <= j
    IN  find(objs[first].children, "PolygonVertexIndex").properties[1].value

\* the stream with every negative value v replaced by -v - 1
Decoded(stream) ==
    [k \in 1..Len(stream) |-> IF stream[k] < 0 THEN 0 - stream[k] - 1 ELSE stream[k]]

Negatives(stream) == {k \in 1..Len(stream) : stream[k] < 0}

\* position in the stream of the last entry of the i-th loop
LoopEnd(loops, i) == SumSeq([k \in 1..i |-> Len(loops[k])])

\* C23: the recovered loops, concatenated in order, are the stream with
\* every negative value v replaced by -v - 1; a loop ends exactly at each
\* negative entry, the entries after the last negative one form one more
\* loop, and no entry is dropped or treated as an error.
C23_LoopsCoverStream ==
    Extracted =>
        \A g \in 1..Len(geometries) :
            LET stream == StreamOf(geometries[g])
                loops == geometries[g].polygons
                trailing == stream # <<>> /\ stream[Len(stream)] >= 0
            IN  /\ ConcatAll(loops) = Decoded(stream)
                /\ Len(loops) = Cardinality(Negatives(stream))
                                + (IF trailing THEN 1 ELSE 0)
                /\ {LoopEnd(loops, i) : i \in 1..Len(loops)}
                       = Negatives(stream) \cup (IF trailing THEN {Len(stream)} ELSE {})

\* the stream 0, 1, -3, 2 gave the loops (0, 1, 2) and (2)
C23_Witness ==
    /\ Extracted /\ Len(geometries) = 1
    /\ StreamOf(geometries[1]) = <<0, 1, 0 - 3, 2>>
    /\ geometries[1].polygons = <<<<0, 1, 2>>, <<2>>>>

(***************************************************************************)
(* Properties of the attribute addressing.                                 *)
(***************************************************************************)
\* the key in vertex_map of the vertex given to the corner at running
\* position k
KeyOfCorner(k) == vertex_map[At(CornerVertex, k) + 1]

\* the source index has the value the addressing rule names: k under
\* ByPolygonVertex/Direct, index_array[k] under ByPolygonVertex/IndexToDirect
\* with an index array, v under ByVertex
IndexByRule(index, mapping, ref, index_array, k, v) ==
    /\ (mapping = "ByPolygonVertex" /\ ref = "Direct") => index = k
    /\ (mapping = "ByPolygonVertex" /\ ref = "IndexToDirect" /\ index_array # <<>>)
           => index = At(index_array, k)
    /\ mapping = "ByVertex" => index = v

\* C24: for the corner at running position k over all polygons of the
\* target geometry, referencing control point v, the normal source index
\* and the UV source index follow the addressing rule of their layer; a
\* geometry without normals gives every corner the normal (0, 1, 0), one
\* without UVs the UV (0, 0).
C24_SourceIndexByRule ==
    Assembled =>
        LET geo == At(geometries, target_geo)
            flat == Flatten(geo.polygons)
        IN  \A k \in 0..(Len(flat) - 1) :
                LET key == KeyOfCorner(k)
                    vert == At(final_vertices, At(CornerVertex, k))
                IN  /\ key[1] = At(flat, k)
                    /\ IF geo.normals = <<>> THEN vert.normal = DefaultNormal
                       ELSE IndexByRule(key[2], geo.normal_mapping, geo.normal_ref,
                                        geo.normal_indices, k, At(flat, k))
                    /\ IF geo.uvs = <<>> THEN vert.uv = DefaultUV
                       ELSE IndexByRule(key[3], geo.uv_mapping, geo.uv_ref,
                                        geo.uv_indices, k, At(flat, k))

\* the first corner of the second polygon, at running position 4 on control
\* point 0, has the normal index index_array[4] = 0 and the UV index 0 of
\* its control point
C24_Witness ==
    /\ Assembled
    /\ TargetPolygons = <<<<0, 1, 2, 3>>, <<0, 2, 3>>>>
    /\ At(geometries, target_geo).normal_ref = "IndexToDirect"
    /\ At(geometries, target_geo).normal_indices = <<0, 1, 0, 1, 0, 1, 0>>
    /\ At(geometries, target_geo).uv_mapping = "ByVertex"
    /\ KeyOfCorner(4) = <<0, 0, 0>>
    /\ KeyOfCorner(5) = <<2, 1, 2>>

(***************************************************************************)
(* Properties of the merge.                                                *)
(***************************************************************************)
\* the first geometry is the skinned one and the second, the only one
\* merged, differs from it in nothing but its id
TwinMerged ==
    /\ returned = "mesh" /\ target_geo = 0 /\ Len(geometries) = 2
    /\ geometries[2] = [geometries[1] EXCEPT !.id = GeoId(2)]
    /\ NonSkinned(geometries, connections, skin_deformers) = <<geometries[2]>>

\* the dedup keys the merge gives the corners of a geometry
MergeKeys(geo) ==
    LET corners == MergeCorners(geo, 0, 0)
    IN  [k \in 1..Len(corners) |-> corners[k].key]

\* C25: a geometry merged as non-skinned gets, under every addressing mode
\* of its layers, the normal index, UV index and dedup key the assembler
\* gives the same geometry, hence as many vertices and the same index
\* pattern shifted by the vertices already there.
C25_MergeAsAssembler ==
    TwinMerged =>
        /\ MergeKeys(geometries[2]) = CornerKeys
        /\ Len(result.vertices) = 2 * Len(final_vertices)
        /\ Len(result.indices) = 2 * Len(final_indices)
        /\ \A k \in 1..Len(final_indices) :
               result.indices[Len(final_indices) + k]
                   = final_indices[k] + Len(final_vertices)

\* the geometry record with the id
GeoOf(id) == CHOOSE g \in Range(geometries) : g.id = id

\* the first position coordinate of a vertex
FirstCoordinate(vert) == At(GeoOf(vert.pos[1]).positions, vert.pos[2])

\* b is the designated bone of the name: the bone of the returned list that
\* carries it, bone 0 when no bone does
Designated(b, name) ==
    IF \E i \in 1..Len(result.bones) : result.bones[i].name = name
    THEN At(result.bones, b).name = name
    ELSE b = 0

\* the vertices the merge appended
MergedVertices == SubSeq(result.vertices, Len(final_vertices) + 1, Len(result.vertices))

RECURSIVE TriangleIndexCount(_)
TriangleIndexCount(polygons) ==
    IF polygons = <<>> THEN 0
    ELSE (IF Len(Head(polygons)) > 2 THEN 3 * (Len(Head(polygons)) - 2) ELSE 0)
         + TriangleIndexCount(Tail(polygons))

\* the geometry the index at position p (from 1) of the merged part of
\* the index buffer was appended for
RECURSIVE OwnerOfIndex(_, _)
OwnerOfIndex(geos, p) ==
    IF p <= TriangleIndexCount(Head(geos).polygons) THEN Head(geos).id
    ELSE OwnerOfIndex(Tail(geos), p - TriangleIndexCount(Head(geos).polygons))

\* C27: the merge of any number of geometries leaves the vertices and
\* indices that were in the buffers in place, every index it appends for a
\* geometry refers to a vertex it appended for that geometry, and every
\* index of the final buffer is less than the final vertex count.
C27_MergeAppends ==
    [][(pc = "merge" /\ returned' = "mesh") =>
          LET nv == Len(result.vertices)
              ni == Len(result.indices)
              merged == NonSkinned(geometries, connections, skin_deformers)
          IN  /\ Len(result'.vertices) >= nv
              /\ SubSeq(result'.vertices, 1, nv) = result.vertices
              /\ Len(result'.indices) >= ni
              /\ SubSeq(result'.indices, 1, ni) = result.indices
              /\ \A p \in 1..(Len(result'.indices) - ni) :
                    LET v == result'.indices[ni + p]
                    IN  /\ v >= nv /\ v < Len(result'.vertices)
                        /\ At(result'.vertices, v).pos[1] = OwnerOfIndex(merged, p)
              /\ \A p \in 1..Len(result'.indices) :
                    result'.indices[p] \in 0..(Len(result'.vertices) - 1)]_vars

\* two geometries merged after the skinned one: three vertices and one
\* triangle each, numbered 3..5 and 6..8
C27_Witness ==
    /\ returned = "mesh"
    /\ Len(NonSkinned(geometries, connections, skin_deformers)) = 2
    /\ Len(result.vertices) = 9
    /\ result.indices = <<0, 1, 2, 3, 4, 5, 6, 7, 8>>
    /\ [k \in 1..9 |-> result.vertices[k].pos[1]]
           \in {<<GeoId(a), GeoId(a), GeoId(a), GeoId(b), GeoId(b), GeoId(b),
                  GeoId(c), GeoId(c), GeoId(c)>> : a, b, c \in 1..MaxGeos}

\* C28: the geometry the resolver selected as the deformer's target is not
\* merged again as a non-skinned geometry, whichever rule selected it: no
\* vertex the merge appended is a vertex of the target geometry.
C28_TargetNotMerged ==
    returned = "mesh" =>
        \A k \in 1..Len(MergedVertices) :
            MergedVertices[k].pos[1] # At(geometries, target_geo).id

(***************************************************************************)
(* Properties of the scatter.                                              *)
(***************************************************************************)
\* some (index, weight) pair of a cluster names control point c
NamedByPair(c) ==
    \E k \in 1..Len(skin_clusters) :
        LET cl == clusters[skin_clusters[k]]
        IN  \E j \in 1..Min2(Len(cl.indices), Len(cl.weights)) : cl.indices[j] = c

\* the influence list of a control point no pair was added to
NoInfluence == [j \in 1..MaxInfluences |-> [b |-> 0, w |-> Rat(0, 1)]]

\* C29: the scatter adds a pair (index, weight) to control point c only if
\* index = c, so that a control point no pair names keeps an empty
\* influence list, and a pair whose index is negative or too large makes
\* the scatter add nothing and fail nowhere.
C29_ScatterInRange ==
    [][pc = "weights" =>
          /\ pc' = "assemble"
          /\ \A c \in 0..(Len(vertex_bones') - 1) :
                ~NamedByPair(c) => At(vertex_bones', c) = NoInfluence]_vars

(***************************************************************************)
(* Properties of the output file.                                          *)
(***************************************************************************)
\* C30: the output file is either never opened or holds the complete mesh,
\* header, vertex, index and bone records; it is opened only once the
\* mesh has been returned, and no failure leaves a part of the records
\* behind.
C30_FileCompleteOrAbsent ==
    IF written
    THEN /\ returned = "mesh"
         /\ Len(output) = 1 + Len(result.vertices) + Len(result.indices)
                          + Len(result.bones)
    ELSE output = <<>>

====
